---- MODULE Spec2Model ----
(***************************************************************************)
(* A model of DatabaseMigrator (src/src/migrator.py): the pseudotype       *)
(* converter, the per-table batch migration and the full-database run.     *)
(*                                                                         *)
(* Text is modelled as a sequence of one-character strings, a Python       *)
(* value as a record [kind, s, n]: None, a str (s), an int (n), or a list  *)
(* (kind "list", s holding its JSON text; sqlite3 cannot bind it).         *)
(***************************************************************************)
EXTENDS Integers, Sequences, FiniteSets, TLC

(* ------------------------------ bounds -------------------------------- *)

\* longest text the converter is fed exhaustively
MaxStrLen == 4

\* most rows a source table holds
MaxRows == 101

\* most migrate_table calls a caller other than migrate_all makes on one migrator
MaxCalls == 2

\* most batches the target engine rejects in one behaviour
MaxFailures == 1

\* the most column names whose every iteration order is explored
MaxPermuted == 3

(* --------------------------- Python values ---------------------------- *)

PyNone == [kind |-> "none", s |-> <<>>, n |-> 0]

PyStr(t) == [kind |-> "str", s |-> t, n |-> 0]

PyInt(i) == [kind |-> "int", s |-> <<>>, n |-> i]

PyList(t) == [kind |-> "list", s |-> t, n |-> 0]

QUOTE == "\""

BACKSLASH == "\\"

DigitChars == <<"0", "1", "2", "3", "4", "5", "6", "7", "8", "9">>

IsDigit(c) == \E d \in 1..10 : DigitChars[d] = c

DigitVal(c) == (CHOOSE d \in 1..10 : DigitChars[d] = c) - 1

RECURSIVE NatToStr(_)
NatToStr(i) ==
    IF i < 10 THEN <<DigitChars[i + 1]>>
    ELSE NatToStr(i \div 10) \o <<DigitChars[(i % 10) + 1]>>

\* str(i) of an int
IntToStr(i) == IF i < 0 THEN <<"-">> \o NatToStr(0 - i) ELSE NatToStr(i)

\* str(value) of a non-null value
py_str(value) ==
    IF value.kind = "int" THEN IntToStr(value.n) ELSE value.s

startswith(t, c) == Len(t) >= 1 /\ t[1] = c

endswith(t, c) == Len(t) >= 1 /\ t[Len(t)] = c

(* ------------------------------- json --------------------------------- *)

\* a variant that escapes the quote only
RECURSIVE json_escape_quotes_only(_)
json_escape_quotes_only(t) ==
    IF t = <<>> THEN <<>>
    ELSE (IF Head(t) = QUOTE THEN <<BACKSLASH, Head(t)>> ELSE <<Head(t)>>)
         \o json_escape_quotes_only(Tail(t))

\* the body of a JSON string literal: '"' and '\' are escaped
RECURSIVE json_escape(_)
json_escape(t) ==
    IF t = <<>> THEN <<>>
    ELSE (IF Head(t) = QUOTE \/ Head(t) = BACKSLASH
          THEN <<BACKSLASH, Head(t)>> ELSE <<Head(t)>>) \o json_escape(Tail(t))

\* json.dumps([t]) of a one-element list holding the str t
json_dumps_list1(t) == <<"[", QUOTE>> \o json_escape(t) \o <<QUOTE, "]">>

ParseFail == [ok |-> FALSE, pos |-> 0, val |-> PyNone, len |-> 0]

\* scans a string literal's body from p (after the opening quote)
RECURSIVE ScanString(_, _, _)
ScanString(t, p, acc) ==
    IF p > Len(t) THEN ParseFail
    ELSE IF t[p] = QUOTE
         THEN [ok |-> TRUE, pos |-> p + 1, val |-> PyStr(acc), len |-> 0]
    ELSE IF t[p] = BACKSLASH
         THEN IF p + 1 <= Len(t) /\ (t[p + 1] = QUOTE \/ t[p + 1] = BACKSLASH)
              THEN ScanString(t, p + 2, Append(acc, t[p + 1]))
              ELSE ParseFail
    ELSE ScanString(t, p + 1, Append(acc, t[p]))

\* scans the digits of an integer literal from p
RECURSIVE ScanDigits(_, _, _)
ScanDigits(t, p, acc) ==
    IF p <= Len(t) /\ IsDigit(t[p])
    THEN ScanDigits(t, p + 1, acc * 10 + DigitVal(t[p]))
    ELSE [ok |-> TRUE, pos |-> p, val |-> PyInt(acc), len |-> 0]

\* an integer literal at p: an optional '-', then 0 or a digit run without a
\* leading 0
ParseNumber(t, p) ==
    LET neg == p <= Len(t) /\ t[p] = "-"
        q == IF neg THEN p + 1 ELSE p
    IN  IF ~(q <= Len(t) /\ IsDigit(t[q])) THEN ParseFail
        ELSE IF t[q] = "0"
             THEN [ok |-> TRUE, pos |-> q + 1, val |-> PyInt(0), len |-> 0]
        ELSE LET r == ScanDigits(t, q, 0)
             IN  [r EXCEPT !.val = PyInt(IF neg THEN 0 - r.val.n ELSE r.val.n)]

\* the first position from p on that holds no blank
RECURSIVE SkipBlanks(_, _)
SkipBlanks(t, p) ==
    IF p <= Len(t) /\ t[p] = " " THEN SkipBlanks(t, p + 1) ELSE p

RECURSIVE ParseValue(_, _)
RECURSIVE ParseElements(_, _, _, _)

\* a JSON array at p (t[p] = "["): val is its element 0, len its length
ParseArray(t, p) ==
    LET q == SkipBlanks(t, p + 1)
    IN  IF q <= Len(t) /\ t[q] = "]"
        THEN [ok |-> TRUE, pos |-> q + 1, val |-> PyNone, len |-> 0]
        ELSE ParseElements(t, q, PyNone, 0)

\* a JSON value at p: an array, a string or an integer
ParseValue(t, p) ==
    IF p > Len(t) THEN ParseFail
    ELSE IF t[p] = "["
         THEN LET a == ParseArray(t, p)
              IN  IF a.ok
                  THEN [ok |-> TRUE, pos |-> a.pos,
                        val |-> PyList(SubSeq(t, p, a.pos - 1)), len |-> 0]
                  ELSE ParseFail
    ELSE IF t[p] = QUOTE THEN ScanString(t, p + 1, <<>>)
    ELSE ParseNumber(t, p)

\* the elements of an array from p, first being element 0 once count > 0
ParseElements(t, p, first, count) ==
    LET v == ParseValue(t, SkipBlanks(t, p))
        q == IF v.ok THEN SkipBlanks(t, v.pos) ELSE 0
    IN  IF ~v.ok \/ q > Len(t) THEN ParseFail
        ELSE LET f == IF count = 0 THEN v.val ELSE first
             IN  IF t[q] = "]"
                 THEN [ok |-> TRUE, pos |-> q + 1, val |-> f, len |-> count + 1]
                 ELSE IF t[q] = ","
                      THEN ParseElements(t, q + 1, f, count + 1)
                      ELSE ParseFail

\* json.loads(t) of a text that starts with "[": fails (ok = FALSE) unless
\* the whole text is one array
json_loads(t) ==
    LET a == ParseArray(t, 1)
    IN  IF a.ok /\ a.pos = Len(t) + 1 THEN a ELSE ParseFail

(* ----------------------- the pseudotype converter ---------------------- *)

\* the pseudotype labels of the _column_definitions metadata
Pseudotypes == {"string", "array", "integer", "boolean"}

\* the characters cut from an unsupported conversion's example value
ExampleMax == 100

Truncate(t, k) == IF Len(t) <= k THEN t ELSE SubSeq(t, 1, k)

\* a variant that wraps every value, array-looking or not
string_to_array_always_wraps(value) == PyStr(json_dumps_list1(py_str(value)))

\* string -> array: a str that looks like an array is kept, any other str is
\* wrapped; a non-str has no startswith and takes the except branch
string_to_array(value) ==
    IF value.kind # "str" THEN PyStr(json_dumps_list1(py_str(value)))
    ELSE IF startswith(value.s, "[") /\ endswith(value.s, "]") THEN value
    ELSE PyStr(json_dumps_list1(value.s))

\* a variant that serializes the integer itself, not its string form
integer_to_array_unquoted(value) == PyStr(<<"[">> \o py_str(value) \o <<"]">>)

\* integer -> array
integer_to_array(value) == PyStr(json_dumps_list1(py_str(value)))

\* a variant that keeps the text of an empty array
array_to_string_empty_kept(value) ==
    IF value.kind = "str" /\ startswith(value.s, "[") /\ endswith(value.s, "]")
    THEN LET a == json_loads(value.s)
         IN  IF a.ok /\ a.len > 0 THEN a.val ELSE PyStr(py_str(value))
    ELSE PyStr(py_str(value))

\* array -> string: element 0 of the parsed array, "" for an empty one,
\* str(value) when it does not parse or does not look like an array
array_to_string(value) ==
    IF value.kind = "str" /\ startswith(value.s, "[") /\ endswith(value.s, "]")
    THEN LET a == json_loads(value.s)
         IN  IF ~a.ok THEN PyStr(py_str(value))
             ELSE IF a.len > 0 THEN a.val
             ELSE PyStr(<<>>)
    ELSE PyStr(py_str(value))

\* the value convert_value_by_pseudotype returns
convert_value_by_pseudotype(value, source_type, target_type) ==
    IF value = PyNone THEN PyNone
    ELSE IF source_type = "string" /\ target_type = "array"
         THEN string_to_array(value)
    ELSE IF source_type = "integer" /\ target_type = "array"
         THEN integer_to_array(value)
    ELSE IF source_type = "array" /\ target_type = "string"
         THEN array_to_string(value)
    ELSE value

\* whether the call falls through to the unsupported-conversion branch
IsUnsupported(value, source_type, target_type) ==
    /\ value # PyNone
    /\ ~(source_type = "string" /\ target_type = "array")
    /\ ~(source_type = "integer" /\ target_type = "array")
    /\ ~(source_type = "array" /\ target_type = "string")
    /\ source_type # target_type

\* a variant that records every offending value over the one before
unsupported_after_overwriting(log, table, column, value, source_type, target_type) ==
    IF IsUnsupported(value, source_type, target_type)
    THEN [k \in (DOMAIN log) \cup {<<table, column>>} |->
            IF k = <<table, column>>
            THEN [source_type |-> source_type, target_type |-> target_type,
                  example_value |-> Truncate(py_str(value), ExampleMax)]
            ELSE log[k]]
    ELSE log

\* migration_stats["unsupported_conversions"] after the call: the first
\* offending value of a (table, column) is recorded, later ones are not
unsupported_after(log, table, column, value, source_type, target_type) ==
    IF IsUnsupported(value, source_type, target_type)
       /\ <<table, column>> \notin DOMAIN log
    THEN [k \in (DOMAIN log) \cup {<<table, column>>} |->
            IF k = <<table, column>>
            THEN [source_type |-> source_type, target_type |-> target_type,
                  example_value |-> Truncate(py_str(value), ExampleMax)]
            ELSE log[k]]
    ELSE log

(* ---------------------------- the databases --------------------------- *)

VARIABLES
    source_db,        \* table name -> [columns, rows, pseudo]
    target_db,        \* table name -> [columns, rows, pseudo]: committed data
    in_transaction,   \* the target connection has a transaction open
    tx_rows,          \* rows inserted by the open transaction, not yet committed
    migration_stats,  \* self.migration_stats
    current_table,    \* self._current_table
    root_level,       \* level of the root logger
    pc,               \* the statement the single thread is at
    mt,               \* the locals of the running migrate_table call
    run,              \* the locals of the running migrate_all call
    outcome,          \* how the last top-level operation ended
    hist,             \* history of the running call, for the properties
    cv,               \* converter call of the converter specification
    verbose_mode,     \* self.verbose_mode
    variable_limit,   \* the most parameters the engine takes in one statement
    config,           \* self.config
    table_counts      \* self.table_counts

vars == <<source_db, target_db, in_transaction, tx_rows, migration_stats,
          current_table, root_level, pc, mt, run, outcome, hist, cv,
          verbose_mode, table_counts, variable_limit, config>>

\* what no action but the start of a full run touches
display == <<verbose_mode, table_counts>>

\* rows of one multi-row INSERT (migrate_table's batch_size)
batch_size == 100

\* logging levels
LOG_NOTSET == 0

LOG_INFO == 20

LOG_ERROR == 40

\* level of the module logger: logging.getLogger(__name__), never set
logger_level == LOG_NOTSET

Range(f) == {f[k] : k \in DOMAIN f}

IndexOf(seq, x) == CHOOSE k \in 1..Len(seq) : seq[k] = x

Perms(S) == {f \in [1..Cardinality(S) -> S] : \A a, b \in 1..Cardinality(S) : f[a] = f[b] => a = b}

Min(a, b) == IF a < b THEN a ELSE b

LargestOf(S) == CHOOSE x \in S : \A y \in S : y <= x

EmptyMap == [k \in {} |-> PyNone]

GetOr(map, key, dflt) == IF key \in DOMAIN map THEN map[key] ELSE dflt

HOUSEHOLD == "household"

HH_PERSON == "hh_person"

Tables == {HOUSEHOLD, HH_PERSON}

\* the metadata table and a lookup table, in both databases
COLUMN_DEFINITIONS == "_column_definitions"

LOOKUP == "L__villages"

\* a table only the source has, and one only the target has
CENSUS == "census"

ARCHIVE == "archive"

\* the characters of a table name
TableText(t) ==
    CASE t = HOUSEHOLD -> <<"h", "o", "u", "s", "e", "h", "o", "l", "d">>
      [] t = HH_PERSON -> <<"h", "h", "_", "p", "e", "r", "s", "o", "n">>
      [] t = COLUMN_DEFINITIONS ->
            <<"_", "c", "o", "l", "u", "m", "n", "_", "d", "e", "f", "i", "n", "i",
              "t", "i", "o", "n", "s">>
      [] t = LOOKUP -> <<"L", "_", "_", "v", "i", "l", "l", "a", "g", "e", "s">>
      [] t = CENSUS -> <<"c", "e", "n", "s", "u", "s">>
      [] t = ARCHIVE -> <<"a", "r", "c", "h", "i", "v", "e">>

\* str.startswith(prefix)
has_prefix(t, prefix) ==
    Len(t) >= Len(prefix) /\ SubSeq(t, 1, Len(prefix)) = prefix

\* a table name no database holds
MISSING_TABLE == "no_such_table"

TagPool == << PyStr(<<"r", "e", "d">>),
              PyStr(<<"[", QUOTE, "x", QUOTE, ",", QUOTE, "y", QUOTE, "]">>),
              PyNone,
              PyStr(<<"[", "]">>),
              PyInt(7),
              PyStr(<<"[", "[", "1", "]", "]">>) >>

\* a text one character longer than an example value may be
LONG_TEXT == [k \in 1..(ExampleMax + 1) |-> IF k <= ExampleMax THEN "n" ELSE "!"]

\* the columns of a wide table: as many as make a full batch one parameter
\* more than the smaller of VariableLimits
WideLayout == <<"w0", "w1", "w2", "w3", "w4", "w5", "w6", "w7", "w8", "w9">>

\* the value of column col in row i of the source tables
SrcValue(col, i) ==
    CASE col = "_id" -> PyInt(i)
      [] col = "notes" -> IF i = 1 THEN PyNone
                          ELSE IF i = 2 THEN PyStr(LONG_TEXT)
                          ELSE PyStr(<<"n", DigitChars[(i % 3) + 1]>>)
      [] col = "hh_id" -> IF i % 3 = 0 THEN PyNone ELSE PyInt(i)
      [] col = "village" -> PyStr(<<"v", DigitChars[(i % 3) + 1]>>)
      [] col \in Range(WideLayout) -> PyInt(i)
      [] OTHER -> TagPool[((i - 1) % Len(TagPool)) + 1]

\* the value of column col in row j a target table holds before the run
OldValue(col, j) ==
    CASE col = "_id" -> PyInt(1000 + j)
      [] col = "hh_id" -> PyInt(j)
      [] col = "village" -> PyStr(<<"o", "l", "d">>)
      [] OTHER -> PyStr(<<"[", "]">>)

\* the DEFAULT a target column takes when an INSERT does not name it
ColumnDefault(col) == IF col = "village" THEN PyStr(<<"?">>) ELSE PyNone

SourceRows(cols, count) ==
    [i \in 1..count |-> [k \in 1..Len(cols) |-> SrcValue(cols[k], i)]]

OldRows(cols, count) ==
    [j \in 1..count |-> [k \in 1..Len(cols) |-> OldValue(cols[k], j)]]

\* the column lists of table household on the two sides: all source columns
\* in the target in another order plus one more; one common column only;
\* columns missing on either side; no common column; a column notes whose
\* first value is null and whose second is LONG_TEXT
LayoutPairs ==
    { << <<"_id", "village", "tags">>, <<"village", "tags", "_id", "hh_id">> >>,
      << <<"_id", "village", "tags">>, <<"village">> >>,
      << <<"tags", "hh_id", "_id">>, <<"_id", "village", "tags">> >>,
      << <<"hh_id">>, <<"village">> >>,
      << <<"_id", "notes">>, <<"notes", "_id">> >>,
      << WideLayout, WideLayout >> }

\* the most host parameters one statement may have, a compile-time setting
\* of the SQLite library the interpreter is linked with: the default before
\* and since SQLite 3.32
VariableLimits == {999, 32766}

\* the limits to tell apart for a pair of layouts: below
\* batch_size * (number of columns) parameters no limit is reached, and one
\* stands for all
VariableLimitsOf(lp) ==
    {l \in VariableLimits :
        \/ l = LargestOf(VariableLimits)
        \/ l < batch_size * Cardinality(Range(lp[1]) \cap Range(lp[2]))}

PersonLayout == <<"hh_id", "village">>

\* the pseudotypes _column_definitions gives column tags on the two sides
\* ("-" for no entry); every other column has no entry
TagTypes == { <<"-", "-">>, <<"string", "array">>, <<"array", "string">>,
              <<"-", "array">>, <<"array", "array">>, <<"string", "-">>,
              <<"integer", "array">>, <<"boolean", "integer">> }

PseudoMap(type) ==
    IF type = "-" THEN [k \in {} |-> "string"] ELSE [k \in {"tags"} |-> type]

\* the pseudotypes of column notes in the source and in the target
NotesTypes == <<"boolean", "integer">>

\* the _column_definitions entries of table household on one side (1 the
\* source, 2 the target)
PseudoOf(cols, tag_type, side) ==
    IF "notes" \in Range(cols) THEN [k \in {"notes"} |-> NotesTypes[side]]
    ELSE PseudoMap(tag_type)

\* source row counts: none, one, a full batch, the most
RowCounts == {0, 1, batch_size, MaxRows}

StatsInit ==
    [ tables_migrated |-> 0,
      tables_skipped |-> 0,
      total_records_migrated |-> 0,
      source_only_tables |-> {},
      target_only_tables |-> {},
      source_only_columns |-> [k \in {} |-> {}],
      target_only_columns |-> [k \in {} |-> {}],
      pseudotype_conversions |-> [k \in {} |-> {}],
      unsupported_conversions |-> [k \in {} |-> {}] ]

MtIdle ==
    [ table_name |-> "", source_records |-> <<>>, column_names |-> <<>>,
      matching_columns |-> <<>>, source_pseudotypes |-> [k \in {} |-> "string"],
      target_pseudotypes |-> [k \in {} |-> "string"], i |-> 0, values |-> <<>>,
      total_inserted |-> 0, total_errors |-> 0 ]

RunIdle == [ mode |-> "none", entry |-> "none", tables_to_migrate |-> <<>>,
             idx |-> 0, original_root_level |-> LOG_INFO ]

\* self.table_counts as __init__ leaves it
TableCountsInit == [k \in {"before", "after"} |-> <<>>]

CvIdle == [ value |-> PyNone, source_type |-> "string", target_type |-> "string",
            column_name |-> "", result |-> PyNone, done |-> FALSE,
            back |-> PyNone, back_done |-> FALSE ]

RowCount(db) == [t \in DOMAIN db |-> Len(db[t].rows)]

HistInit(tdb) ==
    [ calls |-> 0, failures |-> 0, len0 |-> RowCount(tdb), total0 |-> 0,
      stats0 |-> StatsInit, init_len |-> RowCount(tdb),
      commits |-> 0, sizes |-> <<>>, writes |-> 0, failed |-> FALSE,
      convert_calls |-> {}, db0 |-> tdb, interrupted |-> FALSE,
      tables_called |-> <<>>, backfills |-> 0,
      target0 |-> tdb, inserted |-> <<>>, committed |-> <<>>, rolled_back |-> <<>>,
      undone |-> 0 ]

\* the tag pseudotypes tried with a layout: all when both sides have the
\* column, else none
TagTypesOf(lp) ==
    IF "tags" \in Range(lp[1]) \cap Range(lp[2]) THEN TagTypes ELSE {<<"-", "-">>}

\* rows the target tables hold before the run
OldCount == 1

\* a table that takes no part in the layouts: one column, one row
PlainTable(rows) == [columns |-> <<"_id">>, rows |-> rows, pseudo |-> PseudoMap("-")]

\* rows of the source table hh_person
PersonCount == 3

\* DatabaseConfig with the defaults of its testing options
DefaultConfig == [test_mode |-> FALSE, max_rows_per_table |-> PyNone]

\* the configuration config/schema_config.py ships, and one with a cap of
\* one row per table
TestConfigs ==
    { [test_mode |-> TRUE, max_rows_per_table |-> PyNone],
      [test_mode |-> TRUE, max_rows_per_table |-> PyInt(1)] }

\* the sides (1 the source, 2 the target) that have table
\* _column_definitions: both, the target only, none
BOTH_SIDES == {1, 2}

MetadataSides == {BOTH_SIDES, {2}, {}}

\* the pairs of pseudotypes a pair of databases can give: a side without
\* _column_definitions has no entry
EntriesOf(types, with_metadata) ==
    {tt \in types : \A side \in BOTH_SIDES \ with_metadata : tt[side] = "-"}

\* the tables of one side next to household and hh_person
OtherTables(side, with_metadata) ==
    {LOOKUP, IF side = 1 THEN CENSUS ELSE ARCHIVE}
        \cup (IF side \in with_metadata THEN {COLUMN_DEFINITIONS} ELSE {})

\* a migrator constructed with one of the configurations, on databases whose
\* table household has one of the layouts and whose column tags has one of
\* the pairs of pseudotypes
Constructed(layouts, types, configs, metadata) ==
    /\ config \in configs
    /\ \E lp \in layouts, n \in RowCounts, with_metadata \in metadata :
       \E tt \in EntriesOf(TagTypesOf(lp) \cap types, with_metadata),
          limit \in VariableLimitsOf(lp) :
         /\ variable_limit = limit
         /\ source_db =
              [t \in Tables \cup OtherTables(1, with_metadata) |->
                 IF t = HOUSEHOLD
                 THEN [columns |-> lp[1], rows |-> SourceRows(lp[1], n),
                       pseudo |-> PseudoOf(lp[1], tt[1], 1)]
                 ELSE IF t = HH_PERSON
                 THEN [columns |-> PersonLayout,
                       rows |-> SourceRows(PersonLayout, PersonCount),
                       pseudo |-> PseudoMap("-")]
                 ELSE PlainTable(SourceRows(<<"_id">>, 1))]
         /\ target_db =
              [t \in Tables \cup OtherTables(2, with_metadata) |->
                 IF t = HOUSEHOLD
                 THEN [columns |-> lp[2], rows |-> OldRows(lp[2], OldCount),
                       pseudo |-> PseudoOf(lp[2], tt[2], 2)]
                 ELSE IF t = HH_PERSON
                 THEN [columns |-> PersonLayout,
                       rows |-> OldRows(PersonLayout, OldCount),
                       pseudo |-> PseudoMap("-")]
                 ELSE PlainTable(OldRows(<<"_id">>, 1))]
    /\ in_transaction = FALSE
    /\ tx_rows = <<>>
    /\ migration_stats = StatsInit
    /\ current_table = ""
    /\ root_level = LOG_INFO
    /\ pc = "idle"
    /\ mt = MtIdle
    /\ run = RunIdle
    /\ outcome = "none"
    /\ hist = HistInit(target_db)
    /\ cv = CvIdle
    /\ verbose_mode = TRUE
    /\ table_counts = TableCountsInit

Init == Constructed(LayoutPairs, TagTypes, {DefaultConfig}, {BOTH_SIDES})

(* ------------------------- schema introspection ----------------------- *)

\* a variant that lists every table
get_table_names_unfiltered(db) == DOMAIN db

\* get_table_names: the tables of a database whose name starts neither with
\* "_" nor with "L__"
get_table_names(db) ==
    {t \in DOMAIN db : ~(\/ has_prefix(TableText(t), <<"_">>)
                         \/ has_prefix(TableText(t), <<"L", "_", "_">>))}

\* get_column_names: the PRAGMA lists nothing for a table the database lacks
get_column_names(db, table_name) ==
    IF table_name \in DOMAIN db THEN Range(db[table_name].columns) ELSE {}

\* get_column_pseudotype: column -> pseudotype, for the columns with an entry;
\* without table _column_definitions the query fails, which is logged as a
\* warning, and the map is empty
get_column_pseudotype(db, table_name) ==
    IF COLUMN_DEFINITIONS \notin DOMAIN db THEN [k \in {} |-> "string"]
    ELSE IF table_name \in DOMAIN db THEN db[table_name].pseudo
    ELSE [k \in {} |-> "string"]

(* ------------------------------ one batch ----------------------------- *)

\* dict(zip(column_names, record))
record_dict(column_names, record) ==
    [c \in Range(column_names) |-> record[IndexOf(column_names, c)]]

\* a variant with another default
pseudotype_of_array_default(pseudotypes, col) == GetOr(pseudotypes, col, "array")

\* the pseudotype of a column on one side: "string" without an entry
pseudotype_of(pseudotypes, col) == GetOr(pseudotypes, col, "string")

\* a variant that sends every column through the converter
always_converts(source_type, target_type) == TRUE

\* the test that sends a column's values through the converter
needs_conversion(source_type, target_type) == source_type # target_type

\* the matching columns whose values go through the converter
converted_columns(matching, sp, tp) ==
    {c \in matching : needs_conversion(pseudotype_of(sp, c), pseudotype_of(tp, c))}

\* record_dict after the conversions of one row
converted_dict(rd, matching, sp, tp) ==
    [c \in DOMAIN rd |->
        IF c \in converted_columns(matching, sp, tp)
        THEN convert_value_by_pseudotype(rd[c], pseudotype_of(sp, c), pseudotype_of(tp, c))
        ELSE rd[c]]

\* a variant that collects the values in the declaration order of the source
\* columns instead of the order the INSERT names them in
row_values_declared_order(record, column_names, matching_columns, sp, tp) ==
    LET rd == converted_dict(record_dict(column_names, record),
                             Range(matching_columns), sp, tp)
        InMatching(c) == c \in Range(matching_columns)
        declared == SelectSeq(column_names, InMatching)
    IN  [k \in 1..Len(matching_columns) |-> rd[declared[k]]]

\* [record_dict[col] for col in matching_columns] of one row
row_values(record, column_names, matching_columns, sp, tp) ==
    LET rd == converted_dict(record_dict(column_names, record),
                             Range(matching_columns), sp, tp)
    IN  [k \in 1..Len(matching_columns) |-> rd[matching_columns[k]]]

\* the flat parameter list of the batch's INSERT
batch_values(batch, column_names, matching_columns, sp, tp) ==
    LET m == Len(matching_columns)
    IN  [j \in 1..(Len(batch) * m) |->
            row_values(batch[((j - 1) \div m) + 1], column_names,
                       matching_columns, sp, tp)[((j - 1) % m) + 1]]

\* the unsupported-conversions log after the converter calls of one row,
\* made for the matching columns from number k on whose pseudotypes differ
RECURSIVE log_row(_, _, _, _, _, _, _, _)
log_row(log, table, record, column_names, cols, sp, tp, k) ==
    IF k > Len(cols) THEN log
    ELSE LET st == pseudotype_of(sp, cols[k])
             tt == pseudotype_of(tp, cols[k])
         IN  log_row(IF needs_conversion(st, tt)
                     THEN unsupported_after(log, table, cols[k],
                                            record[IndexOf(column_names, cols[k])],
                                            st, tt)
                     ELSE log,
                     table, record, column_names, cols, sp, tp, k + 1)

\* the log after the calls of rows lo..hi of a batch, row after row (an empty
\* log is the same value under either name: the test has the log of the
\* left half evaluated before the right half starts)
RECURSIVE log_rows(_, _, _, _, _, _, _, _, _)
log_rows(log, table, batch, column_names, cols, sp, tp, lo, hi) ==
    IF lo = hi
    THEN log_row(log, table, batch[lo], column_names, cols, sp, tp, 1)
    ELSE LET mid == (lo + hi) \div 2
             left == log_rows(log, table, batch, column_names, cols, sp, tp, lo, mid)
         IN  IF DOMAIN left = {}
             THEN log_rows(EmptyMap, table, batch, column_names, cols, sp, tp, mid + 1, hi)
             ELSE log_rows(left, table, batch, column_names, cols, sp, tp, mid + 1, hi)

\* the unsupported-conversions log after the converter calls of a batch
log_batch(log, table, batch, column_names, cols, sp, tp) ==
    IF batch = <<>> THEN log
    ELSE log_rows(log, table, batch, column_names, cols, sp, tp, 1, Len(batch))

\* the engine compiles a statement with up to variable_limit parameters
\* and fails on one with more ("too many SQL variables")
within_variable_limit(values, limit) == Len(values) <= limit

\* sqlite3 binds None, int and str parameters, not a list
bindable(values) == \A j \in 1..Len(values) : values[j].kind # "list"

\* the rows INSERT INTO t (insert_columns) VALUES (...), (...) adds: a named
\* column takes the parameter at its place, any other column its default
inserted_rows(target_columns, insert_columns, values) ==
    LET m == Len(insert_columns)
    IN  [r \in 1..(Len(values) \div m) |->
            [k \in 1..Len(target_columns) |->
                IF target_columns[k] \in Range(insert_columns)
                THEN values[(r - 1) * m + IndexOf(insert_columns, target_columns[k])]
                ELSE ColumnDefault(target_columns[k])]]

(* ----------------------------- migrate_table -------------------------- *)

\* where control goes when migrate_table returns to a caller of this kind
ReturnPc(mode) == IF mode = "all" THEN "all_after" ELSE "idle"

ReturnOutcome(mode) == IF mode = "all" THEN outcome ELSE "returned"

\* the per-call part of the history, taken when migrate_table is entered
HistEnter(h) ==
    [h EXCEPT !.len0 = RowCount(target_db),
              !.total0 = migration_stats.total_records_migrated,
              !.stats0 = migration_stats,
              !.commits = 0, !.sizes = <<>>, !.writes = 0,
              !.convert_calls = {},
              !.target0 = target_db, !.inserted = <<>>, !.committed = <<>>,
              !.rolled_back = <<>>, !.undone = 0]

\* a variant that tests the effective level, which the root logger decides
record_column_diff_effective(stats, table_name, source_only, target_only) ==
    LET s1 == IF source_only # {} /\ root_level <= LOG_INFO
              THEN [stats EXCEPT !.source_only_columns =
                       [t \in (DOMAIN @) \cup {table_name} |->
                           IF t = table_name THEN source_only ELSE @[t]]]
              ELSE stats
    IN  IF target_only # {} /\ root_level <= LOG_INFO
        THEN [s1 EXCEPT !.target_only_columns =
                 [t \in (DOMAIN @) \cup {table_name} |->
                     IF t = table_name THEN target_only ELSE @[t]]]
        ELSE s1

\* the column differences migrate_table records: a set is recorded when it
\* is not empty and the module logger's own level is at most INFO
record_column_diff(stats, table_name, source_only, target_only) ==
    LET s1 == IF source_only # {} /\ logger_level <= LOG_INFO
              THEN [stats EXCEPT !.source_only_columns =
                       [t \in (DOMAIN @) \cup {table_name} |->
                           IF t = table_name THEN source_only ELSE @[t]]]
              ELSE stats
    IN  IF target_only # {} /\ logger_level <= LOG_INFO
        THEN [s1 EXCEPT !.target_only_columns =
                 [t \in (DOMAIN @) \cup {table_name} |->
                     IF t = table_name THEN target_only ELSE @[t]]]
        ELSE s1

\* a variant that counts the skipped table as migrated too
skip_empty_source_as_migrated(stats) ==
    [stats EXCEPT !.tables_skipped = @ + 1, !.tables_migrated = @ + 1]

\* the statistics after the skip of a table without source rows
skip_empty_source(stats) == [stats EXCEPT !.tables_skipped = @ + 1]

\* a variant that forgets to count the skip
skip_no_matching_uncounted(stats) == stats

\* the statistics after the skip of a table without matching columns
skip_no_matching(stats) == [stats EXCEPT !.tables_skipped = @ + 1]

\* migrate_table(table_name) up to the first batch: the empty-source skip,
\* the column diff, the no-matching-columns skip and the fetch
\* the orders in which iterating over a set of column names may yield
\* them: any order for up to MaxPermuted names; for more, the order of the
\* declaration and its reverse stand for all
iteration_orders(names, declared) ==
    IF Cardinality(names) <= MaxPermuted THEN Perms(names)
    ELSE LET kept == SelectSeq(declared, LAMBDA c : c \in names)
         IN  {kept, [k \in 1..Len(kept) |-> kept[Len(kept) + 1 - k]]}

\* a variant of rollback() that keeps the rows
rollback_keeping(rows) == rows

\* the uncommitted rows of the connection after rollback()
rollback(rows) == <<>>

\* a variant in which reading the rows takes them out of the table
after_select_consuming(db, table_name) == [db EXCEPT ![table_name].rows = <<>>]

\* the source database after SELECT COUNT(*) and SELECT * on a table: the
\* queries of migrate_table change nothing
after_select(db, table_name) == db

EnterMigrateTable(table_name, mode, h) ==
    LET source_columns == get_column_names(source_db, table_name)
        target_columns == get_column_names(target_db, table_name)
        matching == source_columns \cap target_columns
        source_only == source_columns \ target_columns
        target_only == target_columns \ source_columns
        diffed == record_column_diff(migration_stats, table_name, source_only, target_only)
    IN
    /\ current_table' = table_name
    /\ source_db' = IF table_name \in DOMAIN source_db
                    THEN after_select(source_db, table_name) ELSE source_db
    /\ UNCHANGED <<target_db, cv, display, variable_limit, config>>
    \* the outermost except clause calls rollback() before it raises again
    /\ in_transaction' = (in_transaction /\ table_name \in DOMAIN source_db)
    /\ tx_rows' = IF table_name \in DOMAIN source_db THEN tx_rows ELSE rollback(tx_rows)
    /\ IF table_name \notin DOMAIN source_db
       THEN \* SELECT COUNT(*) raises: no such table
            /\ pc' = "idle"
            /\ outcome' = "raised"
            /\ mt' = MtIdle
            /\ migration_stats' = migration_stats
            /\ hist' = HistEnter(h)
       ELSE IF Len(source_db[table_name].rows) = 0
       THEN /\ migration_stats' = skip_empty_source(migration_stats)
            /\ pc' = ReturnPc(mode)
            /\ outcome' = ReturnOutcome(mode)
            /\ mt' = [MtIdle EXCEPT !.table_name = table_name]
            /\ hist' = HistEnter(h)
       ELSE IF matching = {}
       THEN /\ migration_stats' = skip_no_matching(diffed)
            /\ pc' = ReturnPc(mode)
            /\ outcome' = ReturnOutcome(mode)
            /\ mt' = [MtIdle EXCEPT !.table_name = table_name]
            /\ hist' = HistEnter(h)
       ELSE \E order \in iteration_orders(matching, source_db[table_name].columns) :
            /\ migration_stats' = diffed
            /\ pc' = "mt_loop"
            /\ outcome' = "none"
            /\ mt' = [MtIdle EXCEPT
                        !.table_name = table_name,
                        !.source_records = source_db[table_name].rows,
                        !.column_names = source_db[table_name].columns,
                        !.matching_columns = order,
                        !.source_pseudotypes = get_column_pseudotype(source_db, table_name),
                        !.target_pseudotypes = get_column_pseudotype(target_db, table_name)]
            /\ hist' = HistEnter(h)

\* a caller other than migrate_all calls migrate_table on this migrator,
\* for the first time or again, with one of the names
CallMigrateTableOf(names) ==
    /\ pc = "idle"
    /\ run.mode # "all"
    /\ hist.calls < MaxCalls
    /\ \E table_name \in names :
         EnterMigrateTable(table_name, "single",
                           [hist EXCEPT !.calls = @ + 1, !.failed = FALSE,
                                        !.tables_called = Append(@, table_name)])
    /\ run' = [RunIdle EXCEPT !.mode = "single"]
    /\ UNCHANGED root_level

CallMigrateTable == CallMigrateTableOf(Tables \cup {MISSING_TABLE})

\* the calls on table household and on a table the source does not have
CallMigrateHousehold == CallMigrateTableOf({HOUSEHOLD, MISSING_TABLE})

\* a variant that slices one row short of the step of the loop
batch_of_short(source_records, i) ==
    SubSeq(source_records, i + 1, Min(i + batch_size - 1, Len(source_records)))

\* the rows of the batch that starts after row i
batch_of(source_records, i) ==
    SubSeq(source_records, i + 1, Min(i + batch_size, Len(source_records)))

\* top of the batch loop with a batch left: the values are converted and
\* collected, then BEGIN TRANSACTION is executed
BatchBegin ==
    /\ pc = "mt_loop"
    /\ mt.i < Len(mt.source_records)
    /\ LET batch == batch_of(mt.source_records, mt.i)
           called == converted_columns(Range(mt.matching_columns),
                                       mt.source_pseudotypes, mt.target_pseudotypes)
       IN  /\ mt' = [mt EXCEPT !.values =
                       batch_values(batch, mt.column_names, mt.matching_columns,
                                    mt.source_pseudotypes, mt.target_pseudotypes)]
           /\ migration_stats' =
                IF called = {} THEN migration_stats
                ELSE [migration_stats EXCEPT !.unsupported_conversions =
                        log_batch(@, current_table, batch, mt.column_names,
                                  mt.matching_columns, mt.source_pseudotypes,
                                  mt.target_pseudotypes)]
           /\ hist' = [hist EXCEPT !.convert_calls = @ \cup called, !.undone = 0]
    /\ IF in_transaction
       THEN \* cannot start a transaction within a transaction
            /\ pc' = "mt_except"
            /\ UNCHANGED in_transaction
       ELSE /\ pc' = "mt_insert"
            /\ in_transaction' = TRUE
    /\ UNCHANGED <<source_db, target_db, tx_rows, current_table, root_level,
                   run, outcome, cv, display, variable_limit, config>>

\* the INSERT of the batch is executed: the engine takes it, or it rejects
\* it (a constraint, a parameter it cannot bind, more parameters than it
\* allows) and adds no row
BatchInsert ==
    /\ pc = "mt_insert"
    /\ \E accepted \in BOOLEAN :
         /\ ~accepted => hist.failures < MaxFailures
         /\ IF /\ accepted
               /\ bindable(mt.values)
               /\ within_variable_limit(mt.values, variable_limit)
            THEN /\ tx_rows' = inserted_rows(target_db[mt.table_name].columns,
                                             mt.matching_columns, mt.values)
                 /\ pc' = "mt_commit"
                 /\ hist' = [hist EXCEPT !.writes = @ + 1,
                                         !.inserted = Append(@, [i |-> mt.i, rows |-> tx_rows'])]
            ELSE /\ tx_rows' = <<>>
                 /\ pc' = "mt_except"
                 /\ hist' = [hist EXCEPT !.writes = @ + 1,
                                         !.failures = IF accepted THEN @ ELSE @ + 1]
    /\ UNCHANGED <<source_db, target_db, in_transaction, migration_stats,
                   current_table, root_level, mt, run, outcome, cv, display, variable_limit, config>>

\* a variant in which the rows of the batch take the place of the table's
commit_rows_replacing(rows, pending) == pending

\* the rows of a table after commit(): the rows the INSERT of the
\* transaction added come after the rows the table held
commit_rows(rows, pending) == rows \o pending

\* commit() of the batch, then total_inserted += len(batch); or commit()
\* fails (the database is locked, the disk is full) and leaves the
\* transaction to the except clause
BatchCommit ==
    /\ pc = "mt_commit"
    /\ \E done \in BOOLEAN :
         /\ ~done => hist.failures < MaxFailures
         /\ IF done
            THEN /\ target_db' = [target_db EXCEPT ![mt.table_name].rows = commit_rows(@, tx_rows)]
                 /\ tx_rows' = <<>>
                 /\ in_transaction' = FALSE
                 /\ mt' = [mt EXCEPT
                             !.total_inserted = @ + Len(batch_of(mt.source_records, mt.i)),
                             !.i = @ + batch_size,
                             !.values = <<>>]
                 /\ hist' = [hist EXCEPT !.commits = @ + 1,
                                         !.sizes = Append(@, Len(tx_rows)),
                                         !.committed = Append(@, mt.i)]
                 /\ pc' = "mt_loop"
            ELSE /\ pc' = "mt_except"
                 /\ hist' = [hist EXCEPT !.failures = @ + 1]
                 /\ UNCHANGED <<target_db, tx_rows, in_transaction, mt>>
    /\ UNCHANGED <<source_db, migration_stats, current_table, root_level, run,
                   outcome, cv, display, variable_limit, config>>

\* a variant that takes the failed batch again
after_batch_error_retrying(m) ==
    [m EXCEPT !.total_errors = @ + Len(batch_of(m.source_records, m.i)),
              !.values = <<>>]

\* what the handler of a failed batch leaves: after rollback() and
\* total_errors += len(batch) the loop goes on with the next batch
after_batch_error(m) ==
    [m EXCEPT !.total_errors = @ + Len(batch_of(m.source_records, m.i)),
              !.i = @ + batch_size,
              !.values = <<>>]

\* a variant of the except clause that ends in a raise
batch_error_reraised == TRUE

\* whether the except clause of a batch ends in a raise: it does not, it
\* logs the error and falls through to the next iteration
batch_error_propagates == FALSE

\* the except clause of a batch: rollback, count the rows as errors, log
BatchExcept ==
    /\ pc = "mt_except"
    /\ tx_rows' = rollback(tx_rows)
    /\ in_transaction' = FALSE
    /\ mt' = after_batch_error(mt)
    /\ hist' = [hist EXCEPT !.failed = TRUE,
                            !.rolled_back = Append(@, mt.i),
                            !.inserted = SelectSeq(@, LAMBDA e : e.i \in Range(hist.committed)),
                            !.undone = Len(tx_rows)]
    /\ IF batch_error_propagates
       THEN \* out of migrate_table and, in a full run, through the finally
            \* clause of migrate_all
            /\ pc' = "idle"
            /\ outcome' = "raised"
            /\ root_level' = run.original_root_level
       ELSE /\ pc' = "mt_loop"
            /\ UNCHANGED <<outcome, root_level>>
    /\ UNCHANGED <<source_db, target_db, migration_stats, current_table, run, cv, display, variable_limit, config>>

\* the except clause of a batch when rollback() raises too: the error is
\* logged and the handler goes on as after a rollback. What the failed
\* rollback leaves of the transaction depends on the fault: the engine
\* closed it nonetheless, or it stays open with its rows pending
BatchExceptRollbackFails ==
    /\ pc = "mt_except"
    /\ \E open \in BOOLEAN :
         /\ in_transaction' = (in_transaction /\ open)
         /\ tx_rows' = IF open THEN tx_rows ELSE rollback(tx_rows)
         /\ hist' = [hist EXCEPT !.failed = TRUE,
                                 !.rolled_back = Append(@, mt.i),
                                 !.inserted =
                                     IF open THEN @
                                     ELSE SelectSeq(@, LAMBDA e : e.i \in Range(hist.committed)),
                                 !.undone = IF open THEN 0 ELSE Len(tx_rows)]
    /\ mt' = after_batch_error(mt)
    /\ IF batch_error_propagates
       THEN /\ pc' = "idle"
            /\ outcome' = "raised"
            /\ root_level' = run.original_root_level
       ELSE /\ pc' = "mt_loop"
            /\ UNCHANGED <<outcome, root_level>>
    /\ UNCHANGED <<source_db, target_db, migration_stats, current_table, run, cv, display, variable_limit, config>>

\* a variant that also counts the rows of the failed batches
stats_counting_errors(stats, m) ==
    [stats EXCEPT !.total_records_migrated = @ + m.total_inserted + m.total_errors]

\* the migration_stats after the batch loop
stats_after_loop(stats, m) ==
    [stats EXCEPT !.total_records_migrated = @ + m.total_inserted]

\* after the last batch: the total is added to the statistics and
\* migrate_table returns
MigrateTableFinish ==
    /\ pc = "mt_loop"
    /\ mt.i >= Len(mt.source_records)
    /\ migration_stats' = stats_after_loop(migration_stats, mt)
    /\ pc' = ReturnPc(run.mode)
    /\ outcome' = ReturnOutcome(run.mode)
    /\ hist' = [hist EXCEPT !.undone = 0]
    /\ UNCHANGED <<source_db, target_db, in_transaction, tx_rows, current_table,
                   root_level, mt, run, cv, display, variable_limit, config>>

(* ------------------------------ migrate_all --------------------------- *)

\* the key _print_table_counts files a stage under: stage.lower()
BEFORE_MIGRATION == "before migration"

\* the counts _print_table_counts collects: for every table of either
\* database the row count on each side as text, "0" where the side lacks it
counted_tables ==
    LET source_tables == get_table_names(source_db)
        target_tables == get_table_names(target_db)
    IN  [table \in source_tables \cup target_tables |->
            [source |-> IF table \in source_tables
                        THEN NatToStr(Len(source_db[table].rows)) ELSE <<"0">>,
             target |-> IF table \in target_tables
                        THEN NatToStr(Len(target_db[table].rows)) ELSE <<"0">>]]

\* self.table_counts after _print_table_counts(stage)
table_counts_after(counts, stage_key) ==
    [k \in (DOMAIN counts) \cup {stage_key} |->
        IF k = stage_key THEN counted_tables ELSE counts[k]]

\* the start of a full run, by migrate_all itself or by the migrate helper,
\* which drives the same steps on its own: the counts are taken and shown
\* and the user is prompted
MigrateAllStart ==
    /\ pc = "idle"
    /\ hist.calls = 0
    /\ table_counts' = table_counts_after(table_counts, BEFORE_MIGRATION)
    /\ hist' = [hist EXCEPT !.calls = @ + 1, !.failed = FALSE]
    /\ \E entry \in {"migrate_all", "helpers"} :
         /\ run' = [RunIdle EXCEPT !.mode = "all", !.entry = entry,
                                   !.original_root_level = root_level]
         /\ root_level' = IF entry = "helpers" THEN LOG_INFO ELSE root_level
         /\ IF entry = "helpers"
            THEN \* migrator.verbose_mode = verbose
                 verbose_mode' \in BOOLEAN
            ELSE UNCHANGED verbose_mode
    /\ pc' = "all_prompt"
    /\ outcome' = "none"
    /\ UNCHANGED <<source_db, target_db, in_transaction, tx_rows, migration_stats,
                   current_table, mt, cv, variable_limit, config>>

\* a variant in which the prompt swallows the interrupt
interrupt_swallowed == FALSE

\* whether a KeyboardInterrupt out of input() ends the run: the handler
\* logs it and raises it again
interrupt_propagates == TRUE

\* the run ends in the KeyboardInterrupt; the helper's finally clause puts
\* the root logger back
Interrupted ==
    /\ pc' = "idle"
    /\ outcome' = "interrupted"
    /\ root_level' = run.original_root_level
    /\ UNCHANGED <<migration_stats, run>>

\* the prompt of _print_table_counts returns: on Enter the table diff is
\* recorded; migrate_all then silences the root logger and enters the table
\* loop, the helper prompts once more
MigrateAllPrompt ==
    /\ pc = "all_prompt"
    /\ \E answer \in {"enter", "interrupt"} :
         /\ hist' = [hist EXCEPT !.interrupted = (answer = "interrupt")]
         /\ IF answer = "interrupt" /\ interrupt_propagates
            THEN Interrupted
            ELSE LET source_tables == get_table_names(source_db)
                     target_tables == get_table_names(target_db)
                     common_tables == source_tables \cap target_tables
                 IN  /\ \E order \in Perms(common_tables) :
                          run' = [run EXCEPT !.tables_to_migrate = order, !.idx = 1]
                     /\ migration_stats' =
                          [migration_stats EXCEPT
                              !.source_only_tables =
                                  IF source_tables \ target_tables # {}
                                  THEN source_tables \ target_tables ELSE @,
                              !.target_only_tables =
                                  IF target_tables \ source_tables # {}
                                  THEN target_tables \ source_tables ELSE @]
                     /\ IF run.entry = "helpers"
                        THEN pc' = "all_prompt2" /\ UNCHANGED root_level
                        ELSE pc' = "all_loop" /\ root_level' = LOG_ERROR
                     /\ UNCHANGED outcome
    /\ UNCHANGED <<source_db, target_db, in_transaction, tx_rows, current_table,
                   mt, cv, display, variable_limit, config>>

\* the helper's own prompt returns: on Enter it silences the root logger
\* and enters the table loop
HelpersPrompt ==
    /\ pc = "all_prompt2"
    /\ \E answer \in {"enter", "interrupt"} :
         /\ hist' = [hist EXCEPT !.interrupted = (answer = "interrupt")]
         /\ IF answer = "interrupt" /\ interrupt_propagates
            THEN Interrupted
            ELSE /\ pc' = "all_loop"
                 /\ root_level' = LOG_ERROR
                 /\ UNCHANGED <<migration_stats, run, outcome>>
    /\ UNCHANGED <<source_db, target_db, in_transaction, tx_rows, current_table,
                   mt, cv, display, variable_limit, config>>

\* the table loop calls migrate_table for the next common table
MigrateAllNextTable ==
    /\ pc = "all_loop"
    /\ run.idx <= Len(run.tables_to_migrate)
    /\ EnterMigrateTable(run.tables_to_migrate[run.idx], "all",
                         [hist EXCEPT !.tables_called =
                             Append(@, run.tables_to_migrate[run.idx])])
    /\ UNCHANGED <<run, root_level>>

\* a variant in which the helper's loop does not count the table
table_done_helper_uncounted(stats, entry) ==
    IF entry = "helpers" THEN stats ELSE [stats EXCEPT !.tables_migrated = @ + 1]

\* the statistics after a call of migrate_table in the table loop: the
\* loop of migrate_all and the loop of the helper both add one to
\* tables_migrated
table_done(stats, entry) == [stats EXCEPT !.tables_migrated = @ + 1]

\* migrate_table has returned to the table loop
MigrateAllAfterTable ==
    /\ pc = "all_after"
    /\ migration_stats' = table_done(migration_stats, run.entry)
    /\ run' = [run EXCEPT !.idx = @ + 1]
    /\ pc' = "all_loop"
    /\ UNCHANGED <<source_db, target_db, in_transaction, tx_rows, current_table,
                   root_level, mt, outcome, hist, cv, display, variable_limit, config>>

\* a variant that lets the loop end once the first table is done
loop_over_after_first(r) == r.idx > 1

\* the for loop over tables_to_migrate has no table left
loop_over(r) == r.idx > Len(r.tables_to_migrate)

\* the table loop is over: the finally clause of migrate_all restores the
\* root logger; the helper leaves it silenced
MigrateAllLoopEnd ==
    /\ pc = "all_loop"
    /\ loop_over(run)
    /\ root_level' = IF run.entry = "helpers" THEN root_level
                     ELSE run.original_root_level
    /\ pc' = "all_villages"
    /\ UNCHANGED <<source_db, target_db, in_transaction, tx_rows, migration_stats,
                   current_table, mt, run, outcome, hist, cv, display, variable_limit, config>>

\* whether the UPDATE of update_person_villages compiles: both tables and
\* the columns it names exist in the target
villages_updatable(db) ==
    /\ {HH_PERSON, HOUSEHOLD} \subseteq DOMAIN db
    /\ {"hh_id", "village"} \subseteq Range(db[HH_PERSON].columns)
    /\ {"_id", "village"} \subseteq Range(db[HOUSEHOLD].columns)

\* SELECT hh.village FROM household hh WHERE hh_id = hh._id: the village of
\* the first such household row, NULL when there is none
village_of(household, hh_id) ==
    LET id == IndexOf(household.columns, "_id")
        hits == {r \in 1..Len(household.rows) : household.rows[r][id] = hh_id}
    IN  IF hits = {} THEN PyNone
        ELSE household.rows[CHOOSE r \in hits : \A q \in hits : r <= q]
                           [IndexOf(household.columns, "village")]

\* a variant that leaves a row without a household alone
updated_persons_matching_only(db) ==
    LET person == db[HH_PERSON]
        hh == IndexOf(person.columns, "hh_id")
        vl == IndexOf(person.columns, "village")
    IN  [r \in 1..Len(person.rows) |->
            IF village_of(db[HOUSEHOLD], person.rows[r][hh]) # PyNone
            THEN [person.rows[r] EXCEPT ![vl] = village_of(db[HOUSEHOLD], person.rows[r][hh])]
            ELSE person.rows[r]]

\* the rows of hh_person after the UPDATE: a row with a hh_id takes the
\* village of its household, a row without one is left alone
updated_persons(db) ==
    LET person == db[HH_PERSON]
        hh == IndexOf(person.columns, "hh_id")
        vl == IndexOf(person.columns, "village")
    IN  [r \in 1..Len(person.rows) |->
            IF person.rows[r][hh] # PyNone
            THEN [person.rows[r] EXCEPT ![vl] = village_of(db[HOUSEHOLD], person.rows[r][hh])]
            ELSE person.rows[r]]

\* update_person_villages: the UPDATE and its commit, or the raise of the
\* error the UPDATE ends in
MigrateAllVillages ==
    /\ pc = "all_villages"
    /\ hist' = [hist EXCEPT !.backfills = @ + 1]
    /\ IF villages_updatable(target_db)
       THEN /\ target_db' = [target_db EXCEPT ![HH_PERSON].rows = updated_persons(target_db)]
            /\ pc' = "all_summary"
            /\ UNCHANGED <<outcome, root_level>>
       ELSE /\ pc' = "idle"
            /\ outcome' = "raised_villages"
            /\ root_level' = run.original_root_level
            /\ UNCHANGED target_db
    /\ UNCHANGED <<source_db, in_transaction, tx_rows, migration_stats,
                   current_table, mt, run, cv, display, variable_limit, config>>

\* the end of the run: the one-line summary without verbose mode; with it,
\* _log_summary, which reads migration_stats["test_mode"], a key nothing
\* sets, and so raises KeyError before the final counts are taken
\* the key the final counts are filed under
AFTER_MIGRATION == "after migration"

\* _log_summary starts with migration_stats["test_mode"], a KeyError when
\* the statistics have no such key
log_summary_raises(stats) == "test_mode" \notin DOMAIN stats

MigrateAllSummary ==
    /\ pc = "all_summary"
    /\ pc' = "idle"
    /\ outcome' = IF verbose_mode /\ log_summary_raises(migration_stats)
                  THEN "raised_summary" ELSE "returned"
    /\ table_counts' = IF verbose_mode /\ ~log_summary_raises(migration_stats)
                       THEN table_counts_after(table_counts, AFTER_MIGRATION)
                       ELSE table_counts
    /\ root_level' = run.original_root_level
    /\ UNCHANGED <<source_db, target_db, in_transaction, tx_rows, migration_stats,
                   current_table, mt, run, hist, cv, verbose_mode, variable_limit,
                   config>>

Next ==
    \/ CallMigrateTable
    \/ BatchBegin
    \/ BatchInsert
    \/ BatchCommit
    \/ BatchExcept
    \/ MigrateTableFinish
    \/ MigrateAllStart
    \/ MigrateAllPrompt
    \/ HelpersPrompt
    \/ MigrateAllNextTable
    \/ MigrateAllAfterTable
    \/ MigrateAllLoopEnd
    \/ MigrateAllVillages
    \/ MigrateAllSummary

Spec == Init /\ [][Next]_vars

\* the layouts the test-mode configurations are run on: all source columns
\* in the target, and one common column only
TestLayouts ==
    { << <<"_id", "village", "tags">>, <<"village", "tags", "_id", "hh_id">> >>,
      << <<"_id", "village", "tags">>, <<"village">> >> }

\* the pseudotypes of column tags the test-mode configurations are run on
TestTypes == { <<"-", "-">>, <<"-", "array">> }

InitTest == Constructed(TestLayouts, TestTypes, TestConfigs, MetadataSides)

\* the migrator under the test-mode configurations, on databases with and
\* without table _column_definitions
SpecTest == InitTest /\ [][Next]_vars

(* ------------- migrate_table on a connection that may fault ----------- *)

\* the layout and the pseudotypes of column tags these calls are run on:
\* one common column, no entry for column tags
BatchLayouts == { << <<"_id", "village", "tags">>, <<"village">> >> }

BatchTypes == { <<"-", "-">> }

InitBatches == Constructed(BatchLayouts, BatchTypes, {DefaultConfig}, {BOTH_SIDES})

\* a step of a running migrate_table call
MigrateTableStep ==
    \/ BatchBegin
    \/ BatchInsert
    \/ BatchCommit
    \/ BatchExcept
    \/ BatchExceptRollbackFails
    \/ MigrateTableFinish

NextBatches ==
    \/ CallMigrateHousehold
    \/ BatchBegin
    \/ BatchInsert
    \/ BatchCommit
    \/ BatchExcept
    \/ BatchExceptRollbackFails
    \/ MigrateTableFinish

\* calls of migrate_table on a target connection whose rollback() may
\* raise; a call that has started keeps running: the interpreter executes
\* the next statement of the loop
SpecBatches == InitBatches /\ [][NextBatches]_vars /\ WF_vars(MigrateTableStep)

(* ---------------- the converter called on its own --------------------- *)

\* the characters the texts fed to the converter are made of
Alphabet == {"[", "]", QUOTE, ",", BACKSLASH, "x", "1", " "}

TextsUpTo(k) == UNION {[1..m -> Alphabet] : m \in 0..k}

\* texts of the documented scenarios, longer than MaxStrLen
NamedTexts ==
    { <<"r", "e", "d">>,
      <<"[", QUOTE, "x", QUOTE, ",", QUOTE, "y", QUOTE, "]">>,
      <<"[", QUOTE, "x", QUOTE, "]">>,
      <<"[", "[", "1", "]", ",", "1", "]">>,
      <<"[", "-", "1", "2", ",", "0", "]">>,
      <<"[", "0", "1", "]">>,
      <<"[", " ", QUOTE, " ", "x", QUOTE, " ", ",", "1", " ", "]">>,
      <<"[", QUOTE, "x", BACKSLASH, QUOTE, "y", QUOTE, "]">> }

ConverterValues ==
    {PyNone} \cup {PyStr(t) : t \in TextsUpTo(MaxStrLen) \cup NamedTexts}
             \cup {PyInt(i) : i \in {0 - 12, 0 - 1, 0, 7, 10, 305}}

\* the environment of a converter call: no database is touched
InitConv ==
    /\ source_db = <<>>
    /\ target_db = <<>>
    /\ in_transaction = FALSE
    /\ tx_rows = <<>>
    /\ migration_stats = StatsInit
    /\ current_table \in {"", HOUSEHOLD}
    /\ root_level = LOG_INFO
    /\ pc = "idle"
    /\ mt = MtIdle
    /\ run = RunIdle
    /\ outcome = "none"
    /\ hist = HistInit(<<>>)
    /\ verbose_mode = TRUE
    /\ variable_limit = LargestOf(VariableLimits)
    /\ config = DefaultConfig
    /\ table_counts = TableCountsInit
    /\ \E value \in ConverterValues, st \in Pseudotypes, tt \in Pseudotypes :
         cv = [CvIdle EXCEPT !.value = value, !.source_type = st,
                             !.target_type = tt, !.column_name = "tags"]

\* getattr(self, "_current_table", "unknown_table")
table_for_log == IF current_table = "" THEN "unknown_table" ELSE current_table

\* convert_value_by_pseudotype(value, source_type, target_type, column_name)
ConvertCall ==
    /\ ~cv.done
    /\ cv' = [cv EXCEPT
                !.result = convert_value_by_pseudotype(cv.value, cv.source_type,
                                                       cv.target_type),
                !.done = TRUE]
    /\ migration_stats' =
         [migration_stats EXCEPT !.unsupported_conversions =
             unsupported_after(@, table_for_log, cv.column_name, cv.value,
                               cv.source_type, cv.target_type)]
    /\ outcome' = "returned"
    /\ UNCHANGED <<source_db, target_db, in_transaction, tx_rows, current_table,
                   root_level, pc, mt, run, hist, display, variable_limit, config>>

\* the value a stored result gives when it is converted the other way
convert_back(value, source_type, target_type) ==
    convert_value_by_pseudotype(value, target_type, source_type)

\* the caller stores the result and calls the converter on it with the two
\* pseudotypes exchanged; a list cannot be stored
ConvertBack ==
    /\ cv.done
    /\ ~cv.back_done
    /\ cv.result.kind # "list"
    /\ cv' = [cv EXCEPT
                !.back = convert_back(cv.result, cv.source_type, cv.target_type),
                !.back_done = TRUE]
    /\ migration_stats' =
         [migration_stats EXCEPT !.unsupported_conversions =
             unsupported_after(@, table_for_log, cv.column_name, cv.result,
                               cv.target_type, cv.source_type)]
    /\ UNCHANGED <<source_db, target_db, in_transaction, tx_rows, current_table,
                   root_level, pc, mt, run, outcome, hist, display, variable_limit, config>>

NextConv ==
    \/ ConvertCall
    \/ ConvertBack

SpecConv == InitConv /\ [][NextConv]_vars

(* ======================= properties of the claims ===================== *)

\* a migrate_table call has just returned to its caller
JustReturned ==
    \/ run.mode = "single" /\ pc = "idle" /\ outcome = "returned"
    \/ pc = "all_after"

\* the source rows of the table of the running or last call
SourceCount == Len(source_db[current_table].rows)

SourceColumns == Range(source_db[current_table].columns)

TargetColumns == Range(target_db[current_table].columns)

\* rows the call has added to its target table so far
AddedByCall == Len(target_db[current_table].rows) - hist.len0[current_table]

RECURSIVE SumOver(_, _)
SumOver(S, f) ==
    IF S = {} THEN 0
    ELSE LET x == CHOOSE y \in S : TRUE IN f[x] + SumOver(S \ {x}, f)

\* rows the migrator has added to the target since it was constructed
AddedByRun ==
    SumOver(DOMAIN target_db,
            [t \in DOMAIN target_db |-> Len(target_db[t].rows) - hist.init_len[t]])

\* the least k with k * b >= n
Ceil(n, b) == CHOOSE k \in 0..n : k * b >= n /\ (k = 0 \/ (k - 1) * b < n)

C2_BatchesAndTotal ==
    (/\ JustReturned
     /\ SourceCount >= 1
     /\ SourceColumns \cap TargetColumns # {}
     /\ mt.total_errors = 0)
    => /\ hist.commits = Ceil(SourceCount, batch_size)
       /\ Len(hist.sizes) = hist.commits
       /\ \A k \in 1..(hist.commits - 1) : hist.sizes[k] = batch_size
       /\ hist.sizes[hist.commits] = SourceCount - batch_size * (hist.commits - 1)
       /\ migration_stats.total_records_migrated = hist.total0 + SourceCount
       /\ AddedByCall = SourceCount

\* C2 witness: 101 rows went in as a batch of 100 and a batch of 1
C2_Witness ==
    /\ JustReturned
    /\ SourceCount = batch_size + 1
    /\ mt.total_errors = 0
    /\ hist.sizes = <<batch_size, 1>>
    /\ migration_stats.total_records_migrated = hist.total0 + batch_size + 1

\* C3: when a call returns, total_records_migrated has grown by the rows the
\* call added to the target table, and between operations it equals the rows
\* added to the target since the migrator was constructed
C3_TotalIsCommittedRows ==
    /\ JustReturned =>
           migration_stats.total_records_migrated - hist.total0 = AddedByCall
    /\ pc \in {"idle", "all_loop", "all_after"} =>
           migration_stats.total_records_migrated = AddedByRun

\* C3 witness: a call returned after a failed batch and a committed one
C3_Witness ==
    /\ JustReturned
    /\ mt.total_errors > 0
    /\ mt.total_inserted > 0
    /\ migration_stats.total_records_migrated - hist.total0 = mt.total_inserted

\* C4: a table with rows but no matching column is skipped without a write:
\* tables_skipped + 1, total_records_migrated and the target as before, no raise
C4_NoMatchingColumnsSkip ==
    (/\ JustReturned
     /\ SourceCount >= 1
     /\ SourceColumns \cap TargetColumns = {})
    => /\ hist.writes = 0
       /\ RowCount(target_db) = hist.len0
       /\ ~in_transaction /\ tx_rows = <<>>
       /\ migration_stats.tables_skipped = hist.stats0.tables_skipped + 1
       /\ migration_stats.total_records_migrated = hist.total0
       /\ outcome # "raised"

\* C4 witness: such a table was skipped
C4_Witness ==
    /\ JustReturned
    /\ SourceCount >= 1
    /\ SourceColumns \cap TargetColumns = {}
    /\ migration_stats.tables_skipped = hist.stats0.tables_skipped + 1

\* C5: a table without source rows is skipped: tables_skipped + 1, every
\* other statistic and the target as before, no raise
C5_EmptySourceSkip ==
    (JustReturned /\ SourceCount = 0)
    => /\ migration_stats = [hist.stats0 EXCEPT !.tables_skipped = @ + 1]
       /\ hist.writes = 0
       /\ RowCount(target_db) = hist.len0
       /\ ~in_transaction /\ tx_rows = <<>>
       /\ outcome # "raised"

\* C5 witness: an empty table was skipped in a full run
C5_Witness ==
    /\ pc = "all_after"
    /\ SourceCount = 0
    /\ migration_stats.tables_skipped = hist.stats0.tables_skipped + 1

\* the pseudotype _column_definitions gives a column of the current table on
\* one side, "string" when it has no entry
TypeIn(db, col) ==
    IF col \in DOMAIN db[current_table].pseudo
    THEN db[current_table].pseudo[col] ELSE "string"

\* the value of column col in source row r of the current table
SourceCell(r, col) ==
    source_db[current_table].rows[r][IndexOf(source_db[current_table].columns, col)]

\* the parameter bound for column number k of the INSERT in row r of the batch
BoundCell(r, k) == mt.values[(r - 1) * Len(mt.matching_columns) + k]

\* C6: in the parameters of every INSERT, a column whose source and target
\* pseudotypes are equal (no entry counting as "string") carries the source
\* value itself, and the converter was not called for that column
C6_EqualPseudotypeUntouched ==
    pc = "mt_insert" =>
        \A k \in 1..Len(mt.matching_columns) :
            LET col == mt.matching_columns[k]
            IN  TypeIn(source_db, col) = TypeIn(target_db, col) =>
                    /\ col \notin hist.convert_calls
                    /\ \A r \in 1..(Len(mt.values) \div Len(mt.matching_columns)) :
                           BoundCell(r, k) = SourceCell(mt.i + r, col)

\* C6 witness: the second batch of a table whose column tags is "string" in
\* the source and has no entry in the target is about to be inserted
C6_Witness ==
    /\ pc = "mt_insert"
    /\ mt.i = batch_size
    /\ \E k \in 1..Len(mt.matching_columns) :
          /\ mt.matching_columns[k] = "tags"
          /\ "tags" \in DOMAIN source_db[current_table].pseudo
          /\ source_db[current_table].pseudo["tags"] = "string"
          /\ "tags" \notin DOMAIN target_db[current_table].pseudo
          /\ BoundCell(1, k) = SourceCell(batch_size + 1, "tags")
          /\ BoundCell(1, k) # PyNone

\* the case of C7: a returned call on a table with rows, with matching
\* columns and with target columns the source lacks, no batch having failed
C7_Case ==
    /\ JustReturned
    /\ SourceCount >= 1
    /\ SourceColumns \cap TargetColumns # {}
    /\ TargetColumns \ SourceColumns # {}
    /\ mt.total_errors = 0

\* the target row the call made of source row r
NewRow(r) == target_db[current_table].rows[hist.len0[current_table] + r]

\* the value C7 as amended expects in a matching column
Migrated(r, col) ==
    IF TypeIn(source_db, col) = TypeIn(target_db, col) THEN SourceCell(r, col)
    ELSE convert_value_by_pseudotype(SourceCell(r, col), TypeIn(source_db, col),
                                     TypeIn(target_db, col))

\* C7 as stated: every source row is one new target row whose matching
\* columns hold the source values and whose other columns hold the default
C7_RowsCopiedVerbatim ==
    C7_Case =>
        /\ AddedByCall = SourceCount
        /\ \A r \in 1..SourceCount :
           \A k \in 1..Len(target_db[current_table].columns) :
               LET col == target_db[current_table].columns[k]
               IN  NewRow(r)[k] = IF col \in SourceColumns THEN SourceCell(r, col)
                                  ELSE ColumnDefault(col)

\* C7 as amended: a matching column whose pseudotypes differ holds the
\* converted source value, every other matching column the source value
\* itself, under its own name; the other columns hold the default
C7_RowsCopiedByName ==
    C7_Case =>
        /\ AddedByCall = SourceCount
        /\ \A r \in 1..SourceCount :
           \A k \in 1..Len(target_db[current_table].columns) :
               LET col == target_db[current_table].columns[k]
               IN  NewRow(r)[k] = IF col \in SourceColumns THEN Migrated(r, col)
                                  ELSE ColumnDefault(col)

\* C7 witness: 101 rows were copied into a target that has one more column
\* and names the common columns in another order than the INSERT did
C7_Witness ==
    /\ C7_Case
    /\ SourceCount = batch_size + 1
    /\ Len(mt.matching_columns) = 3
    /\ mt.matching_columns # source_db[current_table].columns
    /\ NewRow(SourceCount)[1] = SourceCell(SourceCount, "village")
    /\ NewRow(SourceCount)[4] = PyNone

\* C8: after a call on a table with rows, the statistics hold the columns of
\* the source missing in the target and those of the target missing in the
\* source, whenever there are any, skipped table or not; and the columns the
\* call copies are the common ones
C8_ColumnDiffRecorded ==
    (JustReturned /\ SourceCount >= 1) =>
        /\ SourceColumns \ TargetColumns # {} =>
              /\ current_table \in DOMAIN migration_stats.source_only_columns
              /\ migration_stats.source_only_columns[current_table]
                     = SourceColumns \ TargetColumns
        /\ TargetColumns \ SourceColumns # {} =>
              /\ current_table \in DOMAIN migration_stats.target_only_columns
              /\ migration_stats.target_only_columns[current_table]
                     = TargetColumns \ SourceColumns
        /\ Range(mt.matching_columns) = SourceColumns \cap TargetColumns
        /\ Len(mt.matching_columns) = Cardinality(SourceColumns \cap TargetColumns)
        /\ \A col \in Range(mt.matching_columns) :
              /\ current_table \in DOMAIN migration_stats.source_only_columns =>
                     col \notin migration_stats.source_only_columns[current_table]
              /\ current_table \in DOMAIN migration_stats.target_only_columns =>
                     col \notin migration_stats.target_only_columns[current_table]

\* C8 witness: in a full run, with the root logger silenced, a table with no
\* common column was skipped and both differences were recorded
C8_Witness ==
    /\ pc = "all_after"
    /\ root_level = LOG_ERROR
    /\ SourceCount >= 1
    /\ SourceColumns \cap TargetColumns = {}
    /\ current_table \in DOMAIN migration_stats.source_only_columns
    /\ current_table \in DOMAIN migration_stats.target_only_columns
    /\ migration_stats.source_only_columns[current_table] = {"hh_id"}
    /\ migration_stats.target_only_columns[current_table] = {"village"}

\* the converter call of the converter specification has returned, having
\* been given this pair of pseudotypes
Converted(source_type, target_type) ==
    cv.done /\ cv.source_type = source_type /\ cv.target_type = target_type

ArrayLooking(t) == Len(t) >= 1 /\ t[1] = "[" /\ t[Len(t)] = "]"

RED == <<"r", "e", "d">>

\* C9: string -> array keeps a str that starts with "[" and ends with "]" and
\* turns any other str into the JSON text of the one-element array holding
\* it: the text starts with [" and ends with "], and read back as JSON it is
\* an array of length 1 whose element is the str; "red" gives ["red"]
C9_StringToArray ==
    (Converted("string", "array") /\ cv.value.kind = "str") =>
        /\ ArrayLooking(cv.value.s) => cv.result = cv.value
        /\ ~ArrayLooking(cv.value.s) =>
              /\ cv.result.kind = "str"
              /\ Len(cv.result.s) >= Len(cv.value.s) + 4
              /\ SubSeq(cv.result.s, 1, 2) = <<"[", QUOTE>>
              /\ SubSeq(cv.result.s, Len(cv.result.s) - 1, Len(cv.result.s))
                     = <<QUOTE, "]">>
              /\ json_loads(cv.result.s).ok
              /\ json_loads(cv.result.s).len = 1
              /\ json_loads(cv.result.s).val = cv.value
        /\ cv.value.s = RED =>
              cv.result = PyStr(<<"[", QUOTE, "r", "e", "d", QUOTE, "]">>)

\* C9 witness: "red" came back as ["red"]
C9_Witness ==
    /\ Converted("string", "array")
    /\ cv.value = PyStr(RED)
    /\ cv.result = PyStr(<<"[", QUOTE, "r", "e", "d", QUOTE, "]">>)

\* C10: array -> string gives element 0 of a str that reads as a JSON array
\* with an element, "" for one that reads as an empty array, and str(value)
\* for a str that does not read as JSON, one that does not look like an
\* array, and a value that is no str; ["x","y"] gives "x"
C10_ArrayToString ==
    (Converted("array", "string") /\ cv.value # PyNone) =>
        /\ (cv.value.kind = "str" /\ ArrayLooking(cv.value.s)) =>
              LET parsed == json_loads(cv.value.s)
              IN  /\ (parsed.ok /\ parsed.len >= 1) => cv.result = parsed.val
                  /\ (parsed.ok /\ parsed.len = 0) => cv.result = PyStr(<<>>)
                  /\ ~parsed.ok => cv.result = cv.value
        /\ (cv.value.kind = "str" /\ ~ArrayLooking(cv.value.s)) =>
              cv.result = cv.value
        /\ cv.value.kind = "int" => cv.result = PyStr(IntToStr(cv.value.n))
        /\ cv.value.s = <<"[", QUOTE, "x", QUOTE, ",", QUOTE, "y", QUOTE, "]">> =>
              cv.result = PyStr(<<"x">>)
        /\ cv.value.s = <<"[", "]">> => cv.result = PyStr(<<>>)
        /\ cv.value.s = <<"[", "x", "]">> => cv.result = cv.value
        /\ cv.value.s = <<"[", "1", ",", "x", "]">> => cv.result = cv.value
        /\ cv.value.s = <<"[", "1", "]">> => cv.result = PyInt(1)
        /\ cv.value = PyInt(0 - 12) => cv.result = PyStr(<<"-", "1", "2">>)

\* C10 witness: ["x","y"] came back as "x"
C10_Witness ==
    /\ Converted("array", "string")
    /\ cv.value = PyStr(<<"[", QUOTE, "x", QUOTE, ",", QUOTE, "y", QUOTE, "]">>)
    /\ cv.result = PyStr(<<"x">>)

\* C11: integer -> array gives, for an int, the JSON text ["<decimal form>"]:
\* read back as JSON it is an array of exactly one element, the str holding
\* the decimal form of the int; 7 gives ["7"], -12 gives ["-12"]
C11_IntegerToArray ==
    (Converted("integer", "array") /\ cv.value.kind = "int") =>
        /\ cv.result = PyStr(<<"[", QUOTE>> \o IntToStr(cv.value.n) \o <<QUOTE, "]">>)
        /\ json_loads(cv.result.s).ok
        /\ json_loads(cv.result.s).len = 1
        /\ json_loads(cv.result.s).val = PyStr(IntToStr(cv.value.n))
        /\ cv.value.n = 7 => cv.result = PyStr(<<"[", QUOTE, "7", QUOTE, "]">>)
        /\ cv.value.n = 0 - 12 =>
              cv.result = PyStr(<<"[", QUOTE, "-", "1", "2", QUOTE, "]">>)

\* C11 witness: -12 came back as ["-12"]
C11_Witness ==
    /\ Converted("integer", "array")
    /\ cv.value = PyInt(0 - 12)
    /\ cv.result = PyStr(<<"[", QUOTE, "-", "1", "2", QUOTE, "]">>)

\* C12: a str that does not both start with "[" and end with "]", the empty
\* str included, converted string -> array and the result array -> string,
\* comes back as it was
C12_RoundTrip ==
    (/\ Converted("string", "array")
     /\ cv.back_done
     /\ cv.value.kind = "str"
     /\ ~ArrayLooking(cv.value.s))
    => cv.back = cv.value

\* C12 witness: a str with a quote and a backslash in it made the round trip
C12_Witness ==
    /\ Converted("string", "array")
    /\ cv.back_done
    /\ cv.value = PyStr(<<"]", QUOTE, BACKSLASH, "[">>)
    /\ cv.result = PyStr(<<"[", QUOTE, "]", BACKSLASH, QUOTE, BACKSLASH, BACKSLASH,
                           "[", QUOTE, "]">>)
    /\ cv.back = cv.value

\* a pair of differing pseudotypes the converter has no conversion for
UnsupportedPair(source_type, target_type) ==
    /\ source_type # target_type
    /\ <<source_type, target_type>> \notin
           {<<"string", "array">>, <<"integer", "array">>, <<"array", "string">>}

\* the pseudotype of column col of table t on one side
TypeOf(db, t, col) ==
    IF col \in DOMAIN db[t].pseudo THEN db[t].pseudo[col] ELSE "string"

\* the value of column col in row r of source table t
CellOf(t, r, col) == source_db[t].rows[r][IndexOf(source_db[t].columns, col)]

\* the rows of source table t that hold a value in column col
NonNullRows(t, col) ==
    {r \in 1..Len(source_db[t].rows) : CellOf(t, r, col) # PyNone}

\* the first of them
FirstNonNull(t, col) ==
    CHOOSE r \in NonNullRows(t, col) : \A q \in NonNullRows(t, col) : r <= q

\* C13: for a pair of differing pseudotypes without a conversion, every
\* value is bound as it is, and the unsupported-conversions log holds for the
\* (table, column) one entry: the pair and the first 100 characters of the
\* first non-null value of the column; no later row, batch or call adds to it
\* or replaces it
C13_UnsupportedLoggedOnce ==
    /\ \A key \in DOMAIN migration_stats.unsupported_conversions :
          LET t == key[1]
              col == key[2]
              entry == migration_stats.unsupported_conversions[key]
          IN  /\ t \in DOMAIN source_db \cap DOMAIN target_db
              /\ col \in Range(source_db[t].columns) \cap Range(target_db[t].columns)
              /\ UnsupportedPair(TypeOf(source_db, t, col), TypeOf(target_db, t, col))
              /\ NonNullRows(t, col) # {}
              /\ entry.source_type = TypeOf(source_db, t, col)
              /\ entry.target_type = TypeOf(target_db, t, col)
              /\ Len(entry.example_value) <= ExampleMax
              /\ entry.example_value =
                     Truncate(py_str(CellOf(t, FirstNonNull(t, col), col)), ExampleMax)
    /\ (JustReturned /\ SourceCount >= 1) =>
          \A col \in SourceColumns \cap TargetColumns :
              (/\ UnsupportedPair(TypeIn(source_db, col), TypeIn(target_db, col))
               /\ NonNullRows(current_table, col) # {})
              => <<current_table, col>> \in DOMAIN migration_stats.unsupported_conversions
    /\ pc = "mt_insert" =>
          \A k \in 1..Len(mt.matching_columns) :
              LET col == mt.matching_columns[k]
              IN  UnsupportedPair(TypeIn(source_db, col), TypeIn(target_db, col)) =>
                     \A r \in 1..(Len(mt.values) \div Len(mt.matching_columns)) :
                         BoundCell(r, k) = SourceCell(mt.i + r, col)

\* C13 witness: the second batch of a boolean -> integer column is about to
\* be inserted; the column's first value is null, its second is 101
\* characters long, and the entry holds the first 100 of them
C13_Witness ==
    /\ pc = "mt_insert"
    /\ mt.i = batch_size
    /\ <<current_table, "notes">> \in DOMAIN migration_stats.unsupported_conversions
    /\ CellOf(current_table, 1, "notes") = PyNone
    /\ CellOf(current_table, 2, "notes") = PyStr(LONG_TEXT)
    /\ migration_stats.unsupported_conversions[<<current_table, "notes">>]
          = [source_type |-> "boolean", target_type |-> "integer",
             example_value |-> SubSeq(LONG_TEXT, 1, ExampleMax)]
    /\ \E k \in 1..Len(mt.matching_columns) :
          mt.matching_columns[k] = "notes" /\ BoundCell(1, k) # PyNone

\* C14 as stated: no batch is lost to a conversion: whenever a batch's INSERT
\* has failed, every parameter the converter had a hand in was a value the
\* engine can bind (null, int or str)
C14_ConversionNeverAbortsBatch ==
    pc = "mt_except" => bindable(mt.values)

(* --- the full run --- *)

\* whether a table name is one get_table_names leaves out
ReservedName(t) ==
    \/ TableText(t)[1] = "_"
    \/ Len(TableText(t)) >= 3 /\ SubSeq(TableText(t), 1, 3) = <<"L", "_", "_">>

\* the tables a full run has to migrate
CommonTables == {t \in DOMAIN source_db \cap DOMAIN target_db : ~ReservedName(t)}

\* the states of a full run between its start and the end of the table loop
LoopStates == {"all_prompt", "all_prompt2", "all_loop", "all_after", "mt_loop",
               "mt_insert", "mt_commit", "mt_except"}

\* a full run that got past the prompts and through the table loop
LoopDone ==
    /\ run.mode = "all"
    /\ pc \in {"all_villages", "all_summary", "idle"}
    /\ outcome # "interrupted"

\* C15: a full run executes update_person_villages at most once, not at all
\* while it is prompting or in the table loop, and exactly once when it has
\* left the loop (a run interrupted at a prompt never gets there); when it
\* is executed, migrate_table has been called for every common table and
\* has returned
C15_BackfillOnceAfterLoop ==
    /\ hist.backfills <= 1
    /\ run.mode # "all" => hist.backfills = 0
    /\ (pc \in LoopStates \/ pc = "all_villages" \/ outcome = "interrupted") =>
           hist.backfills = 0
    /\ (LoopDone /\ pc # "all_villages") => hist.backfills = 1
    /\ (pc = "all_villages" \/ hist.backfills = 1) =>
           /\ Len(hist.tables_called) = Cardinality(CommonTables)
           /\ Range(hist.tables_called) = CommonTables
           /\ migration_stats.tables_migrated = Cardinality(CommonTables)

\* the village backfill has run after both common tables were migrated and
\* has filled in a village
C15_Witness ==
    /\ run.mode = "all"
    /\ pc = "all_summary"
    /\ hist.backfills = 1
    /\ Len(hist.tables_called) = 2
    /\ target_db # hist.db0
    /\ \E k \in DOMAIN target_db[HH_PERSON].rows :
          target_db[HH_PERSON].rows[k] \notin Range(source_db[HH_PERSON].rows)
                                               \cup Range(hist.db0[HH_PERSON].rows)

\* the counters and per-table records of the statistics, the two table
\* lists left aside
CountersOf(stats) ==
    [k \in DOMAIN stats \ {"source_only_tables", "target_only_tables"} |-> stats[k]]

\* C16: while a full run waits at a confirmation prompt no statement has
\* changed the target: the target is as it was, no transaction is open, no
\* INSERT has been executed and no counter has moved; and a run interrupted
\* at a prompt ends there, with the target and the counters as they were
C16_NothingWrittenBeforeConfirmation ==
    /\ pc \in {"all_prompt", "all_prompt2"} =>
           /\ target_db = hist.db0
           /\ ~in_transaction
           /\ hist.writes = 0
           /\ hist.tables_called = <<>>
           /\ CountersOf(migration_stats) = CountersOf(StatsInit)
    /\ pc = "all_prompt" => migration_stats = StatsInit
    /\ hist.interrupted =>
           /\ pc = "idle"
           /\ outcome = "interrupted"
           /\ target_db = hist.db0
           /\ ~in_transaction
           /\ hist.tables_called = <<>>
           /\ hist.backfills = 0
           /\ CountersOf(migration_stats) = CountersOf(StatsInit)

\* a run interrupted at the helper's own prompt, after the first prompt was
\* confirmed and the counts of the source tables were shown
C16_Witness ==
    /\ hist.interrupted
    /\ run.entry = "helpers"
    /\ run.idx = 1
    /\ outcome = "interrupted"
    /\ target_db = hist.db0
    /\ DOMAIN table_counts[BEFORE_MIGRATION] # {}

\* C17: a full run calls migrate_table only for tables that both databases
\* have and whose name starts neither with "_" nor with "L__", for none of
\* them twice, and by the end of the table loop for each of them; once the
\* first prompt is confirmed, the other tables of the source and of the
\* target with such a name are on record as source-only and target-only
C17_EachCommonTableOnce ==
    run.mode = "all" =>
        /\ \A k \in DOMAIN hist.tables_called : hist.tables_called[k] \in CommonTables
        /\ \A j, k \in DOMAIN hist.tables_called :
              hist.tables_called[j] = hist.tables_called[k] => j = k
        /\ LoopDone => Range(hist.tables_called) = CommonTables
        /\ run.idx >= 1 =>
              /\ migration_stats.source_only_tables =
                    {t \in DOMAIN source_db \ DOMAIN target_db : ~ReservedName(t)}
              /\ migration_stats.target_only_tables =
                    {t \in DOMAIN target_db \ DOMAIN source_db : ~ReservedName(t)}

\* a finished table loop over databases that share two ordinary tables, the
\* metadata table and a lookup table, and have one ordinary table each that
\* the other lacks
C17_Witness ==
    /\ LoopDone
    /\ Range(hist.tables_called) = {HOUSEHOLD, HH_PERSON}
    /\ {COLUMN_DEFINITIONS, LOOKUP} \subseteq DOMAIN source_db \cap DOMAIN target_db
    /\ migration_stats.source_only_tables = {CENSUS}
    /\ migration_stats.target_only_tables = {ARCHIVE}

\* C18 as stated: after a completed full run tables_migrated and
\* tables_skipped add up to the number of common tables
C18_MigratedPlusSkippedIsCommon ==
    (LoopDone /\ pc = "idle") =>
        migration_stats.tables_migrated + migration_stats.tables_skipped
            = Cardinality(CommonTables)

(* --- the size of an INSERT --- *)

\* C19 as stated: every INSERT that is executed has fewer bound parameters
\* than the engine allows, however many columns match
C19_ParametersBelowLimit ==
    pc = "mt_insert" => Len(mt.values) < variable_limit

(* --- the transaction of a batch --- *)

\* the rows the INSERT of the batch starting after row i added to its
\* transaction
RowsOfBatch(i) ==
    (CHOOSE e \in Range(hist.inserted) : e.i = i).rows

\* the rows of the first n committed batches of the call, in order
RECURSIVE RowsCommitted(_)
RowsCommitted(n) ==
    IF n = 0 THEN <<>> ELSE RowsCommitted(n - 1) \o RowsOfBatch(hist.committed[n])

\* the rows of a target table as the migrator's connection sees them
Visible(t) ==
    target_db[t].rows \o (IF in_transaction \/ pc = "mt_loop" THEN tx_rows ELSE <<>>)

\* a migrate_table call that got to its batch loop is running or has just
\* returned
InBatches ==
    /\ mt.source_records # <<>>
    /\ pc \in {"mt_loop", "mt_insert", "mt_commit", "mt_except"} \/ JustReturned

C21_TestModeCapsRows ==
    (config.test_mode /\ config.max_rows_per_table.kind = "int" /\ mt.table_name # "") =>
        /\ Len(mt.source_records) <= config.max_rows_per_table.n
        /\ Len(target_db[mt.table_name].rows) - hist.len0[mt.table_name]
               <= config.max_rows_per_table.n

(* --- the log of conversions --- *)

\* the columns of the call whose values went through a supported conversion
\* with a value other than null in some source row
ConvertedWithValue ==
    {c \in hist.convert_calls :
        /\ ~UnsupportedPair(TypeOf(source_db, current_table, c),
                            TypeOf(target_db, current_table, c))
        /\ NonNullRows(current_table, c) # {}}

\* C22 as stated: when migrate_table has returned after committing rows of
\* a table with a converted column, the pseudotype-conversions log has an
\* entry for the table and the column, with the two types and one to three
\* examples
C22_ConversionsAreLogged ==
    (JustReturned /\ hist.commits > 0) =>
        \A c \in ConvertedWithValue :
            /\ current_table \in DOMAIN migration_stats.pseudotype_conversions
            /\ c \in DOMAIN migration_stats.pseudotype_conversions[current_table]
            /\ LET entry == migration_stats.pseudotype_conversions[current_table][c]
               IN  /\ entry.source_type = TypeOf(source_db, current_table, c)
                   /\ entry.target_type = TypeOf(target_db, current_table, c)
                   /\ Len(entry.examples) \in 1..3

(* --- the end of a full run --- *)

\* C23 as stated: a full run in which no batch was rejected and the village
\* update succeeded returns normally and has taken the final row counts
C23_FullRunEndsNormally ==
    (/\ run.mode = "all"
     /\ pc = "idle"
     /\ hist.backfills = 1
     /\ outcome # "raised_villages"
     /\ hist.failures = 0) =>
        /\ outcome = "returned"
        /\ AFTER_MIGRATION \in DOMAIN table_counts

(* --- columns without a pseudotype entry --- *)

\* whether _column_definitions of a database has an entry for column col
\* of the current table
HasEntry(db, col) ==
    /\ COLUMN_DEFINITIONS \in DOMAIN db
    /\ col \in DOMAIN db[current_table].pseudo

\* the pseudotype the entry gives
EntryOf(db, col) == db[current_table].pseudo[col]

\* C24: a call on a table the source has does not end in the error of the
\* pseudotype query, with or without table _column_definitions; the maps
\* the call works with hold exactly the columns that have an entry; and in
\* the parameters of every INSERT a column without a source entry whose
\* target entry is "array" holds the source value converted string -> array
\* (null stays null), and a column without an entry on either side holds
\* the source value itself and never went through the converter
C24_MissingPseudotypeIsString ==
    /\ (mt.table_name # "" /\ mt.table_name \in DOMAIN source_db) => outcome # "raised"
    /\ pc = "mt_insert" =>
        /\ DOMAIN mt.source_pseudotypes =
               {c \in SourceColumns : HasEntry(source_db, c)}
        /\ DOMAIN mt.target_pseudotypes =
               {c \in TargetColumns : HasEntry(target_db, c)}
        /\ \A k \in 1..Len(mt.matching_columns) :
              LET col == mt.matching_columns[k]
                  rows == 1..(Len(mt.values) \div Len(mt.matching_columns))
              IN  /\ (/\ ~HasEntry(source_db, col)
                       /\ HasEntry(target_db, col)
                       /\ EntryOf(target_db, col) = "array") =>
                         \A r \in rows :
                            BoundCell(r, k) =
                               IF SourceCell(mt.i + r, col) = PyNone THEN PyNone
                               ELSE string_to_array(SourceCell(mt.i + r, col))
                  /\ (~HasEntry(source_db, col) /\ ~HasEntry(target_db, col)) =>
                         /\ col \notin hist.convert_calls
                         /\ \A r \in rows : BoundCell(r, k) = SourceCell(mt.i + r, col)

\* a batch of a source without _column_definitions is about to be inserted
\* into a target that declares column tags an array: a text was wrapped,
\* and column village, without entry on either side, was copied
C24_Witness ==
    /\ pc = "mt_insert"
    /\ COLUMN_DEFINITIONS \notin DOMAIN source_db
    /\ HasEntry(target_db, "tags")
    /\ EntryOf(target_db, "tags") = "array"
    /\ "tags" \in hist.convert_calls
    /\ "village" \notin hist.convert_calls
    /\ \E k \in 1..Len(mt.matching_columns) :
          /\ mt.matching_columns[k] = "tags"
          /\ SourceCell(mt.i + 1, "tags").kind = "str"
          /\ BoundCell(1, k) # SourceCell(mt.i + 1, "tags")
          /\ BoundCell(1, k) = string_to_array(SourceCell(mt.i + 1, "tags"))

(* --- the states a migrate_table call ends in --- *)

\* a call is inside its batch loop
InBatchLoop == pc \in {"mt_loop", "mt_insert", "mt_commit", "mt_except"}

\* a call made on its own has ended
CallEnded == run.mode = "single" /\ pc = "idle"

\* the call returned after counting the table as skipped
Skipped ==
    /\ CallEnded /\ outcome = "returned"
    /\ migration_stats.tables_skipped = hist.stats0.tables_skipped + 1

\* the call returned after its batch loop ran out of rows
Done ==
    /\ CallEnded /\ outcome = "returned"
    /\ mt.source_records # <<>>
    /\ mt.i >= Len(mt.source_records)

\* the call raised
Failed == CallEnded /\ outcome = "raised"

\* the offsets the batches of n rows start at
BatchStarts(n) == {k * batch_size : k \in 0..(Ceil(n, batch_size) - 1)}

C25_EndStates ==
    CallEnded =>
        /\ Skipped \/ Done \/ Failed
        /\ ~(Skipped /\ Done) /\ ~(Skipped /\ Failed) /\ ~(Done /\ Failed)
        /\ Skipped =>
              /\ SourceCount = 0 \/ SourceColumns \cap TargetColumns = {}
              /\ hist.writes = 0
              /\ target_db = hist.target0
        /\ Done =>
              /\ Range(hist.committed) \cup Range(hist.rolled_back) = BatchStarts(SourceCount)
              /\ Len(hist.committed) + Len(hist.rolled_back)
                     = Cardinality(BatchStarts(SourceCount))
              /\ \A j, k \in DOMAIN hist.committed :
                     j < k => hist.committed[j] < hist.committed[k]
              /\ \A j, k \in DOMAIN hist.rolled_back :
                     j < k => hist.rolled_back[j] < hist.rolled_back[k]
        /\ Failed =>
              /\ hist.writes = 0
              /\ hist.committed = <<>> /\ hist.rolled_back = <<>>
              /\ target_db = hist.target0

\* the loop takes the batches in order: it stays at its batch or moves to
\* the next one
C25_BatchesInOrder ==
    (InBatchLoop /\ InBatchLoop') => mt'.i \in {mt.i, mt.i + batch_size}

C26_TransactionClosedBeforeNextBegin ==
    (pc = "mt_loop" /\ mt.i < Len(mt.source_records)) =>
        ~in_transaction /\ tx_rows = <<>>

(* --- the village update --- *)

\* the value of column col in row r of a target table
TargetCell(db, table, r, col) ==
    db[table].rows[r][IndexOf(db[table].columns, col)]

\* the household rows whose _id is the hh_id of person row r
HouseholdsOf(db, r) ==
    {h \in 1..Len(db[HOUSEHOLD].rows) :
        TargetCell(db, HOUSEHOLD, h, "_id") = TargetCell(db, HH_PERSON, r, "hh_id")}

\* C27: the village update that succeeds keeps the rows of hh_person in
\* number and order; a row with a hh_id gets the village of a household
\* row whose _id is that hh_id, and NULL when there is no such row,
\* whatever it held; a row without a hh_id is unchanged; every other
\* column of hh_person and every other table are unchanged
C27_VillagesFromHousehold ==
    [][(pc = "all_villages" /\ pc' = "all_summary") =>
         /\ \A t \in DOMAIN target_db \ {HH_PERSON} : target_db'[t] = target_db[t]
         /\ DOMAIN target_db' = DOMAIN target_db
         /\ target_db'[HH_PERSON].columns = target_db[HH_PERSON].columns
         /\ Len(target_db'[HH_PERSON].rows) = Len(target_db[HH_PERSON].rows)
         /\ \A r \in 1..Len(target_db[HH_PERSON].rows) :
               /\ \A c \in Range(target_db[HH_PERSON].columns) \ {"village"} :
                      TargetCell(target_db', HH_PERSON, r, c)
                         = TargetCell(target_db, HH_PERSON, r, c)
               /\ IF TargetCell(target_db, HH_PERSON, r, "hh_id") = PyNone
                  THEN TargetCell(target_db', HH_PERSON, r, "village")
                          = TargetCell(target_db, HH_PERSON, r, "village")
                  ELSE IF HouseholdsOf(target_db, r) = {}
                  THEN TargetCell(target_db', HH_PERSON, r, "village") = PyNone
                  ELSE \E h \in HouseholdsOf(target_db, r) :
                          TargetCell(target_db', HH_PERSON, r, "village")
                             = TargetCell(target_db, HOUSEHOLD, h, "village")
      ]_vars

\* after the update hh_person holds a row without hh_id that kept its
\* village, a row whose household is missing and whose village is NULL, and
\* a row with the village of its household
C27_Witness ==
    /\ pc = "all_summary"
    /\ \E r1, r2, r3 \in 1..Len(target_db[HH_PERSON].rows) :
          /\ TargetCell(target_db, HH_PERSON, r1, "hh_id") = PyNone
          /\ TargetCell(target_db, HH_PERSON, r1, "village") # PyNone
          /\ TargetCell(target_db, HH_PERSON, r2, "hh_id") # PyNone
          /\ HouseholdsOf(target_db, r2) = {}
          /\ TargetCell(target_db, HH_PERSON, r2, "village") = PyNone
          /\ TargetCell(target_db, HH_PERSON, r3, "hh_id") # PyNone
          /\ HouseholdsOf(target_db, r3) # {}
          /\ TargetCell(target_db, HH_PERSON, r3, "village") # PyNone
          /\ TargetCell(target_db, HH_PERSON, r3, "village")
                 # TargetCell(hist.db0, HH_PERSON, 1, "village")

(* --- the source database --- *)

\* C28: no step of the migrator (the row counts, migrate_table and its
\* batches, the full run, the village update), ended well or not, changes
\* the source database: its tables keep their columns and rows
C28_SourceNeverWritten == [][source_db' = source_db]_vars

\* a full run has ended after a failed batch, with rows added to the target
\* and the village update done
C28_Witness ==
    /\ run.mode = "all" /\ pc = "idle"
    /\ hist.failures >= 1
    /\ hist.backfills = 1
    /\ target_db # hist.db0
    /\ Len(source_db[HOUSEHOLD].rows) = MaxRows

(* --- migrate_table only appends --- *)

\* a call of migrate_table is running or has just ended, with a return or
\* with a raise
DuringOrAfterCall == InBatchLoop \/ JustReturned \/ Failed

\* the second call in a row on the same table has returned, and no batch
\* of either call failed
MigratedTwice ==
    /\ CallEnded /\ outcome = "returned"
    /\ Len(hist.tables_called) = 2
    /\ hist.tables_called[1] = hist.tables_called[2]
    /\ hist.failures = 0 /\ ~hist.failed
    /\ SourceCount >= 1
    /\ SourceColumns \cap TargetColumns # {}

\* C29: during and after a call of migrate_table(T), ended by a return or
\* by a raise, the rows target table T held before the call are still its
\* first rows, with their values, and every other target table is as it
\* was before the call; a second call on the same table, when no batch
\* fails, adds the rows of the source once more
C29_OnlyAppends ==
    /\ DuringOrAfterCall =>
          /\ DOMAIN target_db = DOMAIN hist.target0
          /\ \A t \in DOMAIN target_db :
                /\ target_db[t].columns = hist.target0[t].columns
                /\ Len(target_db[t].rows) >= Len(hist.target0[t].rows)
                /\ SubSeq(target_db[t].rows, 1, Len(hist.target0[t].rows))
                       = hist.target0[t].rows
                /\ t # current_table => target_db[t] = hist.target0[t]
    /\ MigratedTwice =>
          LET rows == target_db[current_table].rows
              n == SourceCount
              old == Len(hist.db0[current_table].rows)
          IN  /\ Len(rows) = old + 2 * n
              /\ SubSeq(rows, old + 1, old + n) = SubSeq(rows, old + n + 1, old + 2 * n)

\* table household was migrated twice: the target holds its older row and
\* two copies of the 101 source rows
C29_Witness ==
    /\ MigratedTwice
    /\ current_table = HOUSEHOLD
    /\ SourceCount = MaxRows
    /\ Len(target_db[HOUSEHOLD].rows) = OldCount + 2 * MaxRows
    /\ target_db[HOUSEHOLD].rows[1] = hist.db0[HOUSEHOLD].rows[1]
    /\ target_db[HOUSEHOLD].rows[OldCount + 1] = target_db[HOUSEHOLD].rows[OldCount + MaxRows + 1]

(* --- the two entry points of a full run --- *)

\* the pseudotype _column_definitions of a database gives column col of
\* table t, "string" without an entry
PseudoIn(db, t, col) ==
    IF COLUMN_DEFINITIONS \in DOMAIN db /\ col \in DOMAIN db[t].pseudo
    THEN db[t].pseudo[col] ELSE "string"

\* whether a full run skips common table t
SkippedTable(t) ==
    \/ source_db[t].rows = <<>>
    \/ Range(source_db[t].columns) \cap Range(hist.db0[t].columns) = {}

\* the value of target column col in the row migrated from source row r of
\* table t
ExpectedCell(t, r, col) ==
    IF col \notin Range(source_db[t].columns) THEN ColumnDefault(col)
    ELSE LET value == source_db[t].rows[r][IndexOf(source_db[t].columns, col)]
         IN  IF PseudoIn(source_db, t, col) = PseudoIn(hist.db0, t, col) THEN value
             ELSE convert_value_by_pseudotype(value, PseudoIn(source_db, t, col),
                                              PseudoIn(hist.db0, t, col))

\* table t of the target before the run with the rows of the source
\* added, when t is a common table that is not skipped
ExpectedTable(t) ==
    IF t \notin CommonTables \/ SkippedTable(t) THEN hist.db0[t]
    ELSE [hist.db0[t] EXCEPT !.rows =
             @ \o [r \in 1..Len(source_db[t].rows) |->
                     [k \in 1..Len(hist.db0[t].columns) |->
                         ExpectedCell(t, r, hist.db0[t].columns[k])]]]

\* the target after the table loop
ExpectedAfterLoop(db) == \A t \in DOMAIN hist.db0 : db[t] = ExpectedTable(t)

\* the village a person row ends with, given the person and household
\* tables after the table loop
ExpectedVillage(person, household, r) ==
    LET hh_id == person.rows[r][IndexOf(person.columns, "hh_id")]
        id == IndexOf(household.columns, "_id")
        hits == {h \in 1..Len(household.rows) : household.rows[h][id] = hh_id}
    IN  IF hh_id = PyNone THEN person.rows[r][IndexOf(person.columns, "village")]
        ELSE IF hits = {} THEN PyNone
        ELSE household.rows[CHOOSE h \in hits : TRUE][IndexOf(household.columns, "village")]

\* the target after the run: as after the table loop, with the villages
\* of the persons taken from the households
ExpectedAfterRun(db) ==
    /\ \A t \in DOMAIN hist.db0 \ {HH_PERSON} : db[t] = ExpectedTable(t)
    /\ LET person == ExpectedTable(HH_PERSON)
       IN  /\ db[HH_PERSON].columns = person.columns
           /\ db[HH_PERSON].pseudo = person.pseudo
           /\ db[HH_PERSON].rows =
                 [r \in 1..Len(person.rows) |->
                     [k \in 1..Len(person.columns) |->
                         IF person.columns[k] = "village"
                         THEN ExpectedVillage(person, db[HOUSEHOLD], r)
                         ELSE person.rows[r][k]]]

\* the counters and table lists after the table loop
ExpectedStats ==
    [ tables_migrated |-> Cardinality(CommonTables),
      tables_skipped |-> Cardinality({t \in CommonTables : SkippedTable(t)}),
      total_records_migrated |->
          SumOver({t \in CommonTables : ~SkippedTable(t)},
                  [t \in CommonTables |-> Len(source_db[t].rows)]),
      source_only_tables |->
          {t \in DOMAIN source_db \ DOMAIN hist.db0 : ~ReservedName(t)},
      target_only_tables |->
          {t \in DOMAIN hist.db0 \ DOMAIN source_db : ~ReservedName(t)} ]

\* a full run in which every prompt was confirmed and no batch failed
ConfirmedRun ==
    /\ run.mode = "all"
    /\ outcome # "interrupted"
    /\ hist.failures = 0 /\ ~hist.failed

\* C30: what a full run leaves is decided by the two databases, the same
\* for migrate_all and for the helper. When every prompt is confirmed and
\* no batch fails, the run calls migrate_table once on each common table,
\* runs the village update once, after the last table, and leaves the
\* target and the counters and table lists given by the databases alone;
\* a run interrupted at its first prompt calls nothing and leaves the
\* target and the statistics as they were
C30_EntryPointsAgree ==
    /\ (ConfirmedRun /\ pc = "all_villages") =>
          /\ Range(hist.tables_called) = CommonTables
          /\ Len(hist.tables_called) = Cardinality(CommonTables)
          /\ hist.backfills = 0
          /\ DOMAIN target_db = DOMAIN hist.db0
          /\ ExpectedAfterLoop(target_db)
    /\ (ConfirmedRun /\ (pc = "all_summary" \/ (pc = "idle" /\ hist.backfills = 1))) =>
          /\ Range(hist.tables_called) = CommonTables
          /\ Len(hist.tables_called) = Cardinality(CommonTables)
          /\ hist.backfills = 1
          /\ DOMAIN target_db = DOMAIN hist.db0
          /\ IF outcome = "raised_villages" THEN ExpectedAfterLoop(target_db)
             ELSE ExpectedAfterRun(target_db)
          /\ \A k \in DOMAIN ExpectedStats : migration_stats[k] = ExpectedStats[k]
    /\ (run.mode = "all" /\ pc = "idle" /\ outcome = "interrupted") =>
          /\ hist.tables_called = <<>>
          /\ hist.backfills = 0
          /\ target_db = hist.db0
          /\ CountersOf(migration_stats) = CountersOf(StatsInit)
          /\ migration_stats.source_only_tables # {} =>
                 /\ migration_stats.source_only_tables = ExpectedStats.source_only_tables
                 /\ migration_stats.target_only_tables = ExpectedStats.target_only_tables

\* a run of the helper has migrated the 101 households and the persons and
\* has updated the villages
C30_Witness ==
    /\ ConfirmedRun
    /\ run.entry = "helpers"
    /\ pc = "all_summary"
    /\ Len(source_db[HOUSEHOLD].rows) = MaxRows
    /\ ~SkippedTable(HOUSEHOLD)
    /\ Len(target_db[HOUSEHOLD].rows) = OldCount + MaxRows
    /\ ExpectedAfterRun(target_db)
    /\ ~ExpectedAfterLoop(target_db)
    /\ migration_stats.tables_migrated = 2

====
